---------------------------- MODULE Spec2Model ----------------------------
(***************************************************************************)
(* SmartBrain (src/unnamed/part_000): the dual-brain router.  One think()  *)
(* call is a sequential asynchronous pipeline; every await of the source   *)
(* is a position of pc, and every action below is the code that runs       *)
(* between two awaits.                                                     *)
(***************************************************************************)
EXTENDS Integers, Sequences, FiniteSets, TLC

VARIABLES
    skills,          \* this.skills
    agent,           \* which of this.agentLoop / this.planner / this.orchestrator are set
    geminiApiKey,    \* this.geminiApiKey is configured
    memoryContext,   \* this._memoryContext
    learnedContext,  \* this._learnedContext
    accessToken,     \* this._openaiAccessToken
    refreshToken,    \* this._openaiRefreshToken
    tokenExpiresAt,  \* this._tokenExpiresAt (epoch ms)
    now,             \* Date.now() (epoch ms)
    issued,          \* number of tokens the OAuth endpoint has issued so far
    pc,              \* the await the running think() call is suspended at
    msg,             \* think()'s message argument
    arg,             \* the message handed to the running handler
    route,           \* the route think() dispatched to
    tested,          \* how many intent matchers think() evaluated
    log,             \* handler invocations, external requests and 401 responses of this call, in order
    sections,        \* prefetchData's sections / _composeWithClaude's contextData
    stage,           \* the next fetch prefetchData / _composeWithClaude considers
    caller,          \* who called _callOpenAI / _fallbackToGemini
    fbData,          \* the prefetchedData argument of _fallbackToGemini
    entry,           \* token state seen when _callOpenAI was entered
    sent,            \* chat-completion requests of this call, as sent
    err,             \* the exception in flight ("" when none)
    reply,           \* what _callOpenAI returned / the fast backend answered
    result,          \* what think() resolved or rejected with
    input,           \* the string a text function of the class is applied to
    out,             \* what that function returned
    got,             \* what the request a handler awaited resolved to
    seen,            \* the think() calls made so far: message, skills argument, route
    calls,           \* the calls in flight at once (_callOpenAI, think), each with its position
    wrote            \* the token response _refreshAccessToken stored last

inst == <<skills, agent, geminiApiKey, memoryContext, learnedContext>>
aux  == <<input, out, seen, calls, wrote>>
tok  == <<accessToken, refreshToken, tokenExpiresAt>>
env  == <<now, issued>>
loc  == <<msg, arg, route, tested, sections, stage, caller, fbData, entry, sent, err, reply>>
vars == <<skills, agent, geminiApiKey, memoryContext, learnedContext, accessToken, refreshToken, tokenExpiresAt,
          now, issued, pc, msg, arg, route, tested, log, sections, stage, caller,
          fbData, entry, sent, err, reply, result, input, out, got, seen, calls,
          wrote>>

---------------------------------------------------------------------------
(* Bounds of the model *)

\* a message body is at most this many phrases of the vocabulary
MaxPhrases == 2
\* the OAuth endpoint issues at most this many tokens in one behaviour
MaxIssued == 3
\* the clock advances at most this many ticks in one behaviour
MaxTicks == 1
\* a sentence is at most this many words of the vocabulary
MaxWords == 3

---------------------------------------------------------------------------
(* Messages.  A message is a sequence of text units: the characters of an  *)
(* override prefix, then phrases of a fixed vocabulary.                    *)

Phrases == << "upscale this", "generate an ultra image of a cat", "draw a picture",
              "produce a video clip", "weather in Paris", "send an email to bob",
              "remind me to call", "create a document", "draft a reply",
              "summarize this", "what's on my calendar", "any unread",
              "open the folder", "latest news", "do this and then that",
              "hello", "my drive" >>

ClaudePrefix == << "/", "c", "l", "a", "u", "d", "e", " " >>
GeminiPrefix == << "/", "g", "e", "m", "i", "n", "i", " " >>
AgentPrefix  == << "/", "a", "g", "e", "n", "t", " " >>
PlanPrefix   == << "/", "p", "l", "a", "n", " " >>

\* String.prototype.startsWith
StartsWith(m, p) == Len(m) >= Len(p) /\ SubSeq(m, 1, Len(p)) = p
\* String.prototype.slice(n)
Slice(m, n) == SubSeq(m, n + 1, Len(m))

RECURSIVE PickPhrases(_, _)
\* the bodies made of phrases i..Len(Phrases) in vocabulary order, at most k of them
PickPhrases(i, k) ==
    IF i > Len(Phrases) \/ k = 0 THEN { <<>> }
    ELSE PickPhrases(i + 1, k)
         \cup { <<Phrases[i]>> \o b : b \in PickPhrases(i + 1, k - 1) }

Bodies == PickPhrases(1, MaxPhrases)

\* the texts matched by a regular expression, within the vocabulary: a
\* regex test on a message holds iff one of its units is in the set
Hits(re, m) == \E i \in 1..Len(m) : m[i] \in re

\* part_000:136
UpscaleRe      == { "upscale this" }
\* part_000:147 (first test)
UltraWordRe    == { "generate an ultra image of a cat" }
\* part_000:147, 159 (second test)
ImageWordRe    == { "generate an ultra image of a cat", "draw a picture" }
\* part_000:159 (first test)
ImageVerbRe    == { "generate an ultra image of a cat", "draw a picture", "create a document" }
\* part_000:171 (first test)
VideoVerbRe    == { "generate an ultra image of a cat", "produce a video clip", "create a document" }
\* part_000:171 (second test)
VideoWordRe    == { "produce a video clip" }
\* part_000:191
WeatherRe      == { "weather in Paris" }
\* part_000:198
ForecastRe     == { }
\* part_000:205
SendEmailRe    == { "send an email to bob" }
\* part_000:211
ReminderRe     == { "remind me to call" }
\* part_000:217
ComposeDocRe   == { "create a document" }
\* part_000:221
ComposeDraftRe == { "draft a reply" }
\* part_000:225
ComposeSumRe   == { "summarize this" }
\* part_000:231
CalendarRe     == { "what's on my calendar" }
\* part_000:235
EmailRe        == { "send an email to bob", "any unread" }
\* part_000:239
DriveRe        == { "create a document", "open the folder", "my drive" }
\* part_000:243
SearchRe       == { "latest news" }
\* part_000:308, 309, 310
CtxEmailRe     == { "send an email to bob", "draft a reply" }
CtxCalendarRe  == { "what's on my calendar" }
CtxDriveRe     == { "create a document", "my drive" }
\* part_000:368, 369, 370, 380
PfEmailRe      == { "send an email to bob" }
PfCalendarRe   == { "what's on my calendar" }
PfDriveRe      == { "create a document", "open the folder", "my drive" }
PfSearchRe     == { "latest news" }
\* part_000:373-376: the units that leave nothing of the drive search term
PfTermEmpty    == { "my drive" }

\* part_000:106-114
_isMultiStepRequest(m) == Hits({ "do this and then that" }, m)

---------------------------------------------------------------------------
(* Skill registries *)

Registry(img, vid, wea, ws, sch, brave) ==
    [ geminiImage |-> img, geminiVideo |-> vid, weather |-> wea,
      googleWorkspace |-> ws, scheduler |-> sch, braveSearch |-> brave ]

FullRegistry  == Registry(TRUE, TRUE, TRUE, "ready", "ready", TRUE)
EmptyRegistry == Registry(FALSE, FALSE, FALSE, "absent", "absent", FALSE)

\* googleWorkspace?.isReady()
WorkspaceReady(sk) == sk.googleWorkspace = "ready"

NoAgent == [ agentLoop |-> FALSE, planner |-> FALSE, orchestrator |-> FALSE ]

\* all three constructors of initAgentLoop returned
AgentReady == [ agentLoop |-> TRUE, planner |-> TRUE, orchestrator |-> TRUE ]

\* initAgentLoop: the constructors run in order inside one try block; the
\* first one that throws leaves the later fields null
InitOutcomes ==
    { NoAgent,
      [ agentLoop |-> TRUE, planner |-> FALSE, orchestrator |-> FALSE ],
      [ agentLoop |-> TRUE, planner |-> TRUE,  orchestrator |-> FALSE ],
      AgentReady }

initAgentLoop(ag) == IF ag.agentLoop THEN { ag } ELSE InitOutcomes

---------------------------------------------------------------------------
(* think(): the priority chain of intent matchers, part_000:135-255 *)

ChainImageFirst ==
    << "upscale", "image", "ultra", "video", "weather", "send-email", "reminder",
       "compose-document", "compose-draft", "compose-summarize",
       "read-calendar", "read-email", "read-drive", "web-search", "multi-step" >>

Chain ==
    << "upscale", "ultra", "image", "video", "weather", "send-email", "reminder",
       "compose-document", "compose-draft", "compose-summarize",
       "read-calendar", "read-email", "read-drive", "web-search", "multi-step" >>

\* the condition of the matcher's outer if
Pattern(c, m) ==
    CASE c = "upscale"           -> Hits(UpscaleRe, m)
      [] c = "ultra"             -> Hits(UltraWordRe, m) /\ Hits(ImageWordRe, m)
      [] c = "image"             -> Hits(ImageVerbRe, m) /\ Hits(ImageWordRe, m)
      [] c = "video"             -> Hits(VideoVerbRe, m) /\ Hits(VideoWordRe, m)
      [] c = "weather"           -> Hits(WeatherRe, m)
      [] c = "send-email"        -> Hits(SendEmailRe, m)
      [] c = "reminder"          -> Hits(ReminderRe, m)
      [] c = "compose-document"  -> Hits(ComposeDocRe, m)
      [] c = "compose-draft"     -> Hits(ComposeDraftRe, m)
      [] c = "compose-summarize" -> Hits(ComposeSumRe, m)
      [] c = "read-calendar"     -> Hits(CalendarRe, m)
      [] c = "read-email"        -> Hits(EmailRe, m)
      [] c = "read-drive"        -> Hits(DriveRe, m)
      [] c = "web-search"        -> Hits(SearchRe, m)
      [] c = "multi-step"        -> _isMultiStepRequest(m)

\* the condition of the matcher's inner if (the skill it needs); the
\* multi-step matcher tests this.orchestrator in its outer if
Guard(c, sk, ag) ==
    CASE c \in { "upscale", "ultra", "image" } -> sk.geminiImage
      [] c = "video"      -> sk.geminiVideo
      [] c = "weather"    -> sk.weather
      [] c \in { "send-email", "read-calendar", "read-email", "read-drive" }
                          -> WorkspaceReady(sk)
      [] c = "reminder"   -> sk.scheduler # "absent"
      [] c = "web-search" -> sk.braveSearch
      [] c = "multi-step" -> ag.orchestrator
      [] OTHER            -> TRUE

RECURSIVE Walk(_, _, _, _)
\* the matchers from position i on: the first whose pattern and guard both
\* hold, else the classifier; with the number of matchers evaluated
Walk(i, m, sk, ag) ==
    IF i > Len(Chain) THEN [ route |-> "classify", tested |-> Len(Chain) ]
    ELSE IF Pattern(Chain[i], m) /\ Guard(Chain[i], sk, ag)
         THEN [ route |-> Chain[i], tested |-> i ]
         ELSE Walk(i + 1, m, sk, ag)

\* part_000:122-131, then the chain
Decide(m, sk, ag) ==
    IF StartsWith(m, ClaudePrefix) THEN [ route |-> "/claude", tested |-> 0 ]
    ELSE IF StartsWith(m, GeminiPrefix) THEN [ route |-> "/gemini", tested |-> 0 ]
    ELSE IF StartsWith(m, AgentPrefix) THEN [ route |-> "/agent", tested |-> 0 ]
    ELSE IF StartsWith(m, PlanPrefix) THEN [ route |-> "/plan", tested |-> 0 ]
    ELSE Walk(1, m, sk, ag)


---------------------------------------------------------------------------
(* Values *)

NoTok == [ src |-> "none", n |-> 0 ]
\* config.openaiCodexToken / config.openaiCodexRefresh, part_000:29-30
CfgTok == [ src |-> "config", n |-> 0 ]
\* a token of the OAuth endpoint's n-th response
SrvTok(n) == [ src |-> "server", n |-> n ]

NoResult   == [ kind |-> "none", val |-> "" ]
Text(s)    == [ kind |-> "text", val |-> s ]
\* a structured media payload {success, imageBase64}
Payload    == [ kind |-> "payload", val |-> "media" ]
\* the promise of think() rejected with e
Raised(e)  == [ kind |-> "raised", val |-> e ]

\* no text function has been applied
NoOut == [ fn |-> "none", case |-> "", val |-> << >>, flag |-> FALSE ]

\* _refreshAccessToken has stored no response yet
NotWritten == [ written |-> FALSE, access_token |-> NoTok, refresh_token |-> NoTok,
                expires_in |-> 0, at |-> 0, raced |-> FALSE ]

\* no request of the running handler has resolved
Pending == [ kind |-> "pending", val |-> << >> ]

NoEntry == [ entered |-> FALSE, expired |-> FALSE, access |-> NoTok, refresh |-> FALSE,
             issued |-> 0 ]

\* non-empty texts a backend, a skill or a sub-agent may answer with
Answers == { "answer-1", "answer-2" }

\* the pc values at which a network call is in flight
Awaiting ==
    { "await_media", "await_video", "await_weather", "await_parseEmail",
      "await_sendEmail", "await_parseReminder", "await_addReminder",
      "await_ctx", "await_fetch", "await_analyze", "await_prefetch",
      "await_refresh", "await_chat", "await_refresh401", "await_retry",
      "await_geminiData", "await_gemini", "await_orchestrator", "await_agent",
      "await_plan", "await_classify" }

---------------------------------------------------------------------------
(* Strings.  A string is the sequence of its characters. *)

\* the characters String.prototype.trim removes
WhiteSpace == { " ", "\t", "\n" }

LowerCase == << "a", "b", "c", "d", "e", "f", "g", "h", "i", "j", "k", "l", "m",
                "n", "o", "p", "q", "r", "s", "t", "u", "v", "w", "x", "y", "z" >>
UpperCase == << "A", "B", "C", "D", "E", "F", "G", "H", "I", "J", "K", "L", "M",
                "N", "O", "P", "Q", "R", "S", "T", "U", "V", "W", "X", "Y", "Z" >>

\* the position of character c in alphabet a, 0 when it is not in it
IndexIn(a, c) == IF \E k \in 1..Len(a) : a[k] = c
                 THEN CHOOSE k \in 1..Len(a) : a[k] = c ELSE 0

\* String.prototype.toUpperCase / toLowerCase
toUpperCase(s) ==
    [ i \in 1..Len(s) |-> IF IndexIn(LowerCase, s[i]) # 0
                          THEN UpperCase[IndexIn(LowerCase, s[i])] ELSE s[i] ]
toLowerCase(s) ==
    [ i \in 1..Len(s) |-> IF IndexIn(UpperCase, s[i]) # 0
                          THEN LowerCase[IndexIn(UpperCase, s[i])] ELSE s[i] ]

\* String.prototype.trim
trim(s) ==
    LET inked == { i \in 1..Len(s) : s[i] \notin WhiteSpace }
    IN  IF inked = {} THEN << >>
        ELSE SubSeq(s, CHOOSE i \in inked : \A j \in inked : i <= j,
                       CHOOSE i \in inked : \A j \in inked : j <= i)

---------------------------------------------------------------------------
(* think(), part_000:116-262 *)

\* thinkWithGemini up to its request, part_000:507-525
GeminiEntry(key, l) ==
    IF key
    THEN [ pc |-> "await_gemini", log |-> l \o << "thinkWithGemini", "gemini.chat" >>,
           result |-> NoResult, caller |-> "" ]
    ELSE [ pc |-> "done", log |-> l \o << "thinkWithGemini" >>,
           result |-> Text("Add GEMINI_API_KEY to .env"), caller |-> "" ]

\* thinkWithClaude up to prefetchData, part_000:387-390
ClaudeEntry(l) ==
    [ pc |-> "prefetch", log |-> l \o << "thinkWithClaude" >>,
      result |-> NoResult, caller |-> "thinkWithClaude" ]

Await(p, l) == [ pc |-> p, log |-> l, result |-> NoResult, caller |-> "" ]

HandlerArgUnstripped(r, m) == m

\* the message a route's handler is called with
HandlerArg(r, m) ==
    CASE r = "/claude" -> Slice(m, 8)
      [] r = "/gemini" -> Slice(m, 8)
      [] r = "/agent"  -> Slice(m, 7)
      [] r = "/plan"   -> Slice(m, 6)
      [] OTHER         -> m

\* the dataType think() passes to _analyzeGoogleData, part_000:233-241
DataType(r) ==
    CASE r = "read-calendar" -> "calendar"
      [] r = "read-email"    -> "email"
      [] r = "read-drive"    -> "drive"

\* a fetch that ignores dataType
FetcherEmailOnly(r) == "googleWorkspace.getRecentEmails"

\* the workspace method _analyzeGoogleData awaits for a dataType, part_000:339-346
Fetcher(r) ==
    CASE DataType(r) = "email"    -> "googleWorkspace.getRecentEmails"
      [] DataType(r) = "calendar" -> "googleWorkspace.getTodayEvents"
      [] DataType(r) = "drive"    -> "googleWorkspace.searchFiles"

\* what think() does once the route is decided, up to the first await
Begin(r, m, ag, key) ==
    CASE r \in { "/claude", "web-search" } -> ClaudeEntry(<<>>)
      [] r = "/gemini" -> GeminiEntry(key, <<>>)
      [] r = "/agent"  ->
            IF ag.agentLoop THEN Await("await_agent", << "agentLoop.run" >>)
            ELSE [ pc |-> "done", log |-> <<>>,
                   result |-> Text("Agent loop not initialized."), caller |-> "" ]
      [] r = "/plan"   ->
            IF ag.planner THEN Await("await_plan", << "planner.planAndExecute" >>)
            ELSE [ pc |-> "done", log |-> <<>>,
                   result |-> Text("Planner not initialized."), caller |-> "" ]
      [] r = "upscale" -> Await("await_media", << "geminiImage.upscale" >>)
      [] r = "ultra"   -> Await("await_media", << "geminiImage.ultraGenerate" >>)
      [] r = "image"   -> Await("await_media", << "geminiImage.generate" >>)
      [] r = "video"   -> Await("await_video", << "geminiVideo.generateVideo" >>)
      [] r = "weather" ->
            Await("await_weather",
                  IF Hits(ForecastRe, m) THEN << "weather.getForecast" >>
                                         ELSE << "weather.get" >>)
      [] r = "send-email" ->
            Await("await_parseEmail", << "_handleSendEmail", "gemini.parse" >>)
      [] r = "reminder" ->
            Await("await_parseReminder", << "_handleReminder", "gemini.parse" >>)
      [] r \in { "compose-document", "compose-draft", "compose-summarize" } ->
            [ pc |-> "composeCtx", log |-> << "_composeWithClaude" >>,
              result |-> NoResult, caller |-> "_composeWithClaude" ]
      [] r \in { "read-calendar", "read-email", "read-drive" } ->
            Await("await_fetch", << "_analyzeGoogleData", Fetcher(r) >>)
      [] r = "multi-step" -> Await("await_orchestrator", << "orchestrator.route" >>)
      [] r = "classify" -> Await("await_classify", << "classifyMessage", "gemini.classify" >>)

\* think(message, context, skills): a.given is FALSE when skills is omitted;
\* ag is what initAgentLoop leaves in agentLoop, planner and orchestrator
\* skills?._memoryContext || '' and skills?._learnedContext || '', part_000:119-120
ContextOf(sk, field) == IF field \in DOMAIN sk THEN sk[field] ELSE ""

Think(m, a, ag) ==
    /\ pc = "idle"
    /\ ag \in initAgentLoop(agent)
    /\ memoryContext' = (IF a.given THEN ContextOf(a.reg, "_memoryContext") ELSE "")
    /\ learnedContext' = (IF a.given THEN ContextOf(a.reg, "_learnedContext") ELSE "")
    /\   LET sk == IF a.given THEN a.reg ELSE skills
             d  == Decide(m, sk, ag)
             b  == Begin(d.route, m, ag, geminiApiKey)
         IN  /\ skills' = sk
             /\ agent' = ag
             /\ msg' = m
             /\ arg' = HandlerArg(d.route, m)
             /\ route' = d.route
             /\ tested' = d.tested
             /\ pc' = b.pc
             /\ log' = b.log
             /\ result' = b.result
             /\ caller' = b.caller
    /\ sections' = <<>>
    /\ stage' = 1
    /\ fbData' = <<>>
    /\ entry' = NoEntry
    /\ sent' = <<>>
    /\ err' = ""
    /\ reply' = ""
    /\ got' = Pending
    /\ UNCHANGED <<geminiApiKey, input, out, calls, wrote, tok, env>>

\* the call is over: its result went to the caller
Return ==
    /\ pc = "done"
    /\ pc' = "idle"
    /\ msg' = <<>>
    /\ arg' = <<>>
    /\ route' = "none"
    /\ tested' = 0
    /\ log' = <<>>
    /\ sections' = <<>>
    /\ stage' = 1
    /\ caller' = ""
    /\ fbData' = <<>>
    /\ entry' = NoEntry
    /\ sent' = <<>>
    /\ err' = ""
    /\ reply' = ""
    /\ result' = NoResult
    /\ got' = Pending
    /\ UNCHANGED <<inst, aux, tok, env>>

\* an action that only moves pc, extends the log or ends the call
Move(p, l, r) ==
    /\ pc' = p
    /\ log' = l
    /\ result' = r
    /\ UNCHANGED <<inst, aux, tok, env, loc>>

Step(p, l, r) == Move(p, l, r) /\ UNCHANGED got

\* the same, keeping what the awaited request resolved to
Resolved(g, p, l, r) == Move(p, l, r) /\ got' = g

Finish(r) == Step("done", log, r)

---------------------------------------------------------------------------
(* Media intents, part_000:135-188 *)

MediaFailText ==
    CASE route = "upscale" -> "Upscale failed."
      [] route = "ultra"   -> "Ultra image generation failed."
      [] OTHER             -> "Image generation failed."

\* geminiImage.upscale / ultraGenerate / generate settles; no try/catch
\* surrounds the await
MediaResolve ==
    /\ pc = "await_media"
    /\ \/ Finish(Payload)
       \/ \E t \in Answers : Finish(Text(t))
       \/ Finish(Text(MediaFailText))
       \/ Finish(Raised("skill error"))

\* geminiVideo.generateVideo settles, part_000:184-186
VideoResolve ==
    /\ pc = "await_video"
    /\ \/ Finish(Payload)
       \/ \E t \in Answers : Finish(Text(t))
       \/ Finish(Text("Video generation failed."))
       \/ Finish(Raised("skill error"))

\* weather.get / getForecast settles inside try/catch, part_000:195-200
WeatherResolve ==
    /\ pc = "await_weather"
    /\ \/ \E t \in Answers : Finish(Text(t))
       \/ Finish(Text("Weather error"))

---------------------------------------------------------------------------
(* Structured-parse handlers, part_000:264-300 *)

\* a key the model's JSON leaves out destructures to undefined
Undefined == "undefined"

\* the values a destructured key may hold: absent, an empty or a non-empty string
JsonValues == { Undefined, "", "text" }

\* JavaScript truthiness of such a value
Truthy(v) == v \notin { Undefined, "" }

\* what the parse request of _handleSendEmail / _handleReminder resolves to: the
\* request fails ("error"), rawText holds no {...} span ("prose"), the span is not
\* JSON ("garbled"), or JSON.parse yields an object read through the given keys
ParseResponses(keys) ==
    { [ kind |-> k, val |-> [ x \in keys |-> Undefined ] ] :
        k \in { "error", "prose", "garbled" } }
    \cup { [ kind |-> "object", val |-> o ] : o \in [ keys -> JsonValues ] }

EmailKeys    == { "to", "subject", "body" }
ReminderKeys == { "time", "message" }

\* part_000:276 read without its test
HasRecipientUnchecked(o) == TRUE

\* if (!to) return ..., part_000:276
HasRecipient(o) == Truthy(o["to"])

\* if (time && reminderMsg), part_000:293
HasReminder(o) == Truthy(o["time"]) /\ Truthy(o["message"])

\* _handleSendEmail after its parse request
ParseEmailResolve ==
    /\ pc = "await_parseEmail"
    /\ \E g \in ParseResponses(EmailKeys) :
         CASE g.kind = "prose" ->
                Resolved(g, "done", log, Text("I couldn't understand the email details."))
           [] g.kind = "object" /\ ~HasRecipient(g.val) ->
                Resolved(g, "done", log, Text("I need a recipient email address."))
           [] g.kind = "object" /\ HasRecipient(g.val) ->
                Resolved(g, "await_sendEmail", Append(log, "googleWorkspace.sendEmail"),
                         NoResult)
           [] OTHER -> Resolved(g, "done", log, Text("Failed to send email"))

\* googleWorkspace.sendEmail settles
SendEmailResolve ==
    /\ pc = "await_sendEmail"
    /\ \/ Finish(Text("Email sent"))
       \/ Finish(Text("Failed to send email"))

\* _handleReminder after its parse request; scheduler.bot is tested only here
ParseReminderResolve ==
    /\ pc = "await_parseReminder"
    /\ \E g \in ParseResponses(ReminderKeys) :
         CASE g.kind \in { "error", "garbled" } ->
                Resolved(g, "done", log, Text("Failed to set reminder"))
           [] g.kind = "object" /\ HasReminder(g.val) /\ skills.scheduler = "ready" ->
                Resolved(g, "await_addReminder", Append(log, "scheduler.addReminder"),
                         NoResult)
           [] OTHER -> Resolved(g, "done", log, Text("I couldn't parse the reminder."))

\* scheduler.addReminder settles
AddReminderResolve ==
    /\ pc = "await_addReminder"
    /\ \/ \E t \in Answers : Finish(Text(t))
       \/ Finish(Text("Failed to set reminder"))

---------------------------------------------------------------------------
(* Fast backend, part_000:486-529 *)

DataAnswerFixed(t) == "I found the data but couldn't analyze it."

\* part_000:501: text || '...'
DataAnswer(t) == IF t # "" THEN t ELSE "I found the data but couldn't analyze it."

\* part_000:527: text || "I'm here!"
ChatAnswer(t) == IF t # "" THEN t ELSE "I'm here!"

\* _fallbackToGemini(message, context, data) up to its first await
Fallback(data, l, key) ==
    IF data # <<>>
    THEN [ pc |-> "await_geminiData", log |-> l \o << "_fallbackToGemini", "gemini.data" >>,
           result |-> NoResult, fbData |-> data ]
    ELSE LET g == GeminiEntry(key, Append(l, "_fallbackToGemini"))
         IN  [ pc |-> g.pc, log |-> g.log, result |-> g.result, fbData |-> <<>> ]

\* what the caller of _callOpenAI does with its outcome: thinkWithClaude
\* (part_000:401-407) hands prefetchedData to the fallback on both paths,
\* _composeWithClaude (part_000:323-331) only when nothing was thrown
After(who, threw, text, l, secs, key) ==
    IF ~threw /\ text # ""
    THEN [ pc |-> "done", log |-> l, fbData |-> <<>>,
           result |-> IF who = "_composeWithClaude"
                      THEN [ kind |-> "composed", val |-> text ] ELSE Text(text) ]
    ELSE Fallback(IF threw /\ who = "_composeWithClaude" THEN <<>> ELSE secs, l, key)

\* the request of _fallbackToGemini settles, part_000:494-502
GeminiDataResolve ==
    /\ pc = "await_geminiData"
    /\ \/ \E t \in Answers \cup { "" } :
            /\ reply' = t
            /\ pc' = "done"
            /\ result' = Text(DataAnswer(t))
       \/ /\ reply' = reply
          /\ pc' = "done"
          /\ result' = Text("Both Claude and Gemini failed")
    /\ UNCHANGED <<inst, aux, tok, env, got, msg, arg, route, tested, log, sections, stage,
                   caller, fbData, entry, sent, err>>

\* apiRateLimiter.callWithRetry of thinkWithGemini settles, part_000:522-528
GeminiResolve ==
    /\ pc = "await_gemini"
    /\ \/ \E t \in Answers \cup { "" } :
            /\ reply' = t
            /\ pc' = "done"
            /\ result' = Text(ChatAnswer(t))
       \/ /\ reply' = reply
          /\ pc' = "done"
          /\ result' = Text("Error")
    /\ UNCHANGED <<inst, aux, tok, env, got, msg, arg, route, tested, log, sections, stage,
                   caller, fbData, entry, sent, err>>

---------------------------------------------------------------------------
(* Sub-agents and the classifier, part_000:74-91, 124-131, 248-262 *)

OrchestratorResolveFallsThrough ==
    /\ pc = "await_orchestrator"
    /\ \/ \E t \in Answers : Finish(Text(t))
       \/ Step("await_classify", log \o << "classifyMessage", "gemini.classify" >>, NoResult)
       \/ Finish(Raised("orchestrator error"))

\* orchestrator.route settles; a falsy result re-runs the request in the
\* agent loop when there is one, else goes on to the classifier
OrchestratorResolve ==
    /\ pc = "await_orchestrator"
    /\ \/ \E t \in Answers : Finish(Text(t))
       \/ IF agent.agentLoop
          THEN Step("await_agent", Append(log, "agentLoop.run"), NoResult)
          ELSE Step("await_classify", log \o << "classifyMessage", "gemini.classify" >>,
                    NoResult)
       \/ Finish(Raised("orchestrator error"))

\* agentLoop.run settles
AgentResolve ==
    /\ pc = "await_agent"
    /\ \/ \E t \in Answers \cup { "" } : Finish(Text(t))
       \/ Finish(Raised("agent loop error"))

\* planner.planAndExecute settles, part_000:129
PlanResolve ==
    /\ pc = "await_plan"
    /\ \/ \E t \in Answers : Finish(Text(t))
       \/ Finish(Text("Could not create a plan for that request."))
       \/ Finish(Raised("planner error"))

\* what the classifier's request came to: the request failed, or it was
\* answered, with or without a text part in the first candidate
Failed      == [ status |-> "error", has |-> FALSE, text |-> << >> ]
NoText      == [ status |-> "ok", has |-> FALSE, text |-> << >> ]
Answered(t) == [ status |-> "ok", has |-> TRUE, text |-> t ]

classifyMessageUntrimmed(r) ==
    IF r.status = "ok" /\ r.has /\ toUpperCase(r.text) = << "A", "C", "T", "I", "O", "N" >>
    THEN "claude" ELSE "gemini"

\* classifyMessage, part_000:74-91: text?.trim().toUpperCase() === 'ACTION',
\* and 'gemini' from the catch block
classifyMessage(r) ==
    IF r.status = "ok" /\ r.has /\ toUpperCase(trim(r.text)) = << "A", "C", "T", "I", "O", "N" >>
    THEN "claude" ELSE "gemini"

\* outputs of the classifier model
ClassifierTexts ==
    { << "A", "C", "T", "I", "O", "N" >>,
      << "C", "H", "A", "T" >>,
      << " ", "a", "c", "t", "i", "o", "n", "\n" >>,
      << "A", "c", "t", "i", "o", "n" >>,
      << "A", "C", "T", "I", "O", "N", "." >>,
      << "A", "C", "T", " ", "I", "O", "N" >>,
      << "R", "E", "A", "C", "T", "I", "O", "N" >>,
      << " ", "\n" >>,
      << >> }

ClassifierResponses == { Failed, NoText } \cup { Answered(t) : t \in ClassifierTexts }

\* the classifier's request settles and think() calls the backend it names
ClassifyResolve ==
    /\ pc = "await_classify"
    /\ \E r \in ClassifierResponses :
         LET b == IF classifyMessage(r) = "claude" THEN ClaudeEntry(log)
                  ELSE GeminiEntry(geminiApiKey, log)
         IN  /\ pc' = b.pc
             /\ log' = b.log
             /\ result' = b.result
             /\ caller' = b.caller
    /\ UNCHANGED <<inst, aux, tok, env, got, msg, arg, route, tested, sections, stage,
                   fbData, entry, sent, err, reply>>

---------------------------------------------------------------------------
(* Analyze mode, part_000:335-361 *)

\* the marker a workspace method answers with when Google is not connected
NotConfigured == "not configured"

\* what a workspace fetch resolves with, as the pieces of the returned string:
\* nothing, the marker alone or inside a sentence, or real data
FetchedData == { << >>, << NotConfigured >>, << "Google Drive", NotConfigured, "yet" >>,
                 << "3 items" >> }

\* String.prototype.includes over those pieces
Includes(data, piece) == \E i \in 1..Len(data) : data[i] = piece

\* the test of part_000:348 without its second half
NotSetUpWhenEmpty(data) == data = << >>

\* !data || data.includes('not configured'), part_000:348
NotSetUp(data) == data = << >> \/ Includes(data, NotConfigured)

NotSetUpText(r) ==
    CASE DataType(r) = "email"    -> "Google email is not set up properly."
      [] DataType(r) = "calendar" -> "Google calendar is not set up properly."
      [] DataType(r) = "drive"    -> "Google drive is not set up properly."

FetchFailText(r) ==
    CASE DataType(r) = "email"    -> "Failed to get email"
      [] DataType(r) = "calendar" -> "Failed to get calendar"
      [] DataType(r) = "drive"    -> "Failed to get drive"

\* the workspace fetch of _analyzeGoogleData settles
FetchResolve ==
    /\ pc = "await_fetch"
    /\ \/ \E d \in FetchedData :
            IF NotSetUp(d)
            THEN Resolved([ kind |-> "data", val |-> d ], "done", log,
                          Text(NotSetUpText(route)))
            ELSE Resolved([ kind |-> "data", val |-> d ], "await_analyze",
                          Append(log, "gemini.analyze"), NoResult)
       \/ Resolved([ kind |-> "error", val |-> << >> ], "done", log,
                   Text(FetchFailText(route)))

\* the analysis request settles
AnalyzeResolve ==
    /\ pc = "await_analyze"
    /\ \/ \E t \in Answers : Finish(Text(t))
       \/ Finish(Text("Could not analyze the data. Try asking differently."))
       \/ Finish(Text(FetchFailText(route)))

---------------------------------------------------------------------------
(* Prefetch, part_000:302-311 and 363-385 *)

CtxFetches == << "googleWorkspace.getRecentEmails", "googleWorkspace.getTodayEvents",
                 "googleWorkspace.listRecentFiles" >>

PfFetches == << "googleWorkspace.getRecentEmails", "googleWorkspace.getTodayEvents",
                "googleWorkspace.searchFiles", "braveSearch.search" >>

\* does _composeWithClaude attempt its s-th context fetch
CtxWanted(s, m, sk) ==
    /\ WorkspaceReady(sk)
    /\ CASE s = 1 -> Hits(CtxEmailRe, m)
         [] s = 2 -> Hits(CtxCalendarRe, m)
         [] s = 3 -> Hits(CtxDriveRe, m)

\* part_000:372-377: the derived drive search term is longer than one character
TermLong(m) == \E i \in 1..Len(m) : m[i] \notin PfTermEmpty

\* does prefetchData attempt its s-th fetch, given the sections so far
PfWanted(s, m, sk, secs) ==
    CASE s = 1 -> Hits(PfEmailRe, m) /\ WorkspaceReady(sk)
      [] s = 2 -> Hits(PfCalendarRe, m) /\ WorkspaceReady(sk)
      [] s = 3 -> Hits(PfDriveRe, m) /\ WorkspaceReady(sk) /\ TermLong(m)
      [] s = 4 -> Hits(PfSearchRe, m) /\ secs = <<>> /\ sk.braveSearch

RECURSIVE NextCtx(_, _, _)
NextCtx(s, m, sk) ==
    IF s > Len(CtxFetches) \/ CtxWanted(s, m, sk) THEN s ELSE NextCtx(s + 1, m, sk)

RECURSIVE NextPf(_, _, _, _)
NextPf(s, m, sk, secs) ==
    IF s > Len(PfFetches) \/ PfWanted(s, m, sk, secs) THEN s ELSE NextPf(s + 1, m, sk, secs)

\* _composeWithClaude runs on to its next context fetch, or to _callOpenAI
ComposeCtx ==
    /\ pc = "composeCtx"
    /\ LET n == NextCtx(stage, arg, skills)
       IN  /\ stage' = n
           /\ IF n > Len(CtxFetches)
              THEN pc' = "callOpenAI" /\ log' = log
              ELSE pc' = "await_ctx" /\ log' = Append(log, CtxFetches[n])
    /\ UNCHANGED <<inst, aux, tok, env, got, msg, arg, route, tested, sections, caller,
                   fbData, entry, sent, err, reply, result>>

\* one try block around the three fetches, as prefetchData has: a failure
\* leaves the later fetches out
CtxFailedLeaves ==
    /\ sections' = sections
    /\ stage' = Len(CtxFetches) + 1

\* a context fetch throws: its own catch logs a warning, part_000:308-310
CtxFailed ==
    /\ sections' = sections
    /\ stage' = stage + 1

\* a context fetch settles; its failure is swallowed by its own try/catch
CtxResolve ==
    /\ pc = "await_ctx"
    /\ \/ /\ sections' = Append(sections, CtxFetches[stage])
          /\ stage' = stage + 1
       \/ CtxFailed
    /\ pc' = "composeCtx"
    /\ UNCHANGED <<inst, aux, tok, env, got, msg, arg, route, tested, log, caller,
                   fbData, entry, sent, err, reply, result>>

\* prefetchData runs on to its next fetch, or returns its sections
Prefetch ==
    /\ pc = "prefetch"
    /\ LET n == NextPf(stage, arg, skills, sections)
       IN  /\ stage' = n
           /\ IF n > Len(PfFetches)
              THEN pc' = "callOpenAI" /\ log' = log
              ELSE pc' = "await_prefetch" /\ log' = Append(log, PfFetches[n])
    /\ UNCHANGED <<inst, aux, tok, env, got, msg, arg, route, tested, sections, caller,
                   fbData, entry, sent, err, reply, result>>

\* a try/catch of its own around each fetch, as _composeWithClaude has
PfFailedContinues ==
    /\ sections' = sections
    /\ stage' = stage + 1
    /\ pc' = "prefetch"

\* a fetch throws: the catch of part_000:383 ends the try block and the sections
\* gathered so far are returned to thinkWithClaude
PfFailed ==
    /\ sections' = sections
    /\ stage' = Len(PfFetches) + 1
    /\ pc' = "callOpenAI"

\* a prefetch settles; a failure leaves the one try block of prefetchData
PrefetchResolve ==
    /\ pc = "await_prefetch"
    /\ \/ /\ sections' = Append(sections, PfFetches[stage])
          /\ stage' = stage + 1
          /\ pc' = "prefetch"
       \/ PfFailed
    /\ UNCHANGED <<inst, aux, tok, env, got, msg, arg, route, tested, log, caller,
                   fbData, entry, sent, err, reply, result>>

---------------------------------------------------------------------------
(* Powerful backend, part_000:410-484 *)

\* expires_in of a refresh response, in seconds; 0 stands for a response
\* that declares none
ExpiresIn == { 0, 60, 90 }

\* part_000:421
Expiry(t, e) == t + ((IF e # 0 THEN e ELSE 3600) * 1000) - 60000

\* the clock's step
TickMs == 30 * 1000

NeedsRefreshNoExpiry == accessToken = NoTok

\* part_000:431
NeedsRefresh == accessToken = NoTok \/ now >= tokenExpiresAt

\* the chat-completion request as it leaves, part_000:441-455 and 469-473
ChatRequest(t, exp, retry) == [ token |-> t, expiresAt |-> exp, at |-> now, retry |-> retry ]

\* _callOpenAI ends, by returning text (null is "") or by throwing e
OpenAIEnds(threw, text, e, l) ==
    LET a == After(caller, threw, text, l, sections, geminiApiKey)
    IN  /\ pc' = a.pc
        /\ log' = a.log
        /\ result' = a.result
        /\ fbData' = a.fbData
        /\ err' = e
        /\ reply' = text

\* the first test of _getValidToken switched off
NoCredentialsUntested == FALSE

\* !this._openaiAccessToken && !this._openaiRefreshToken, part_000:430
NoCredentials == accessToken = NoTok /\ refreshToken = NoTok

\* _callOpenAI up to its first request: _getValidToken, part_000:429-441
CallOpenAI ==
    /\ pc = "callOpenAI"
    /\ entry' = [ entered |-> TRUE, expired |-> now >= tokenExpiresAt,
                  access |-> accessToken, refresh |-> refreshToken # NoTok,
                  issued |-> issued ]
    /\ IF NoCredentials
       THEN OpenAIEnds(TRUE, "", "No OpenAI credentials configured", log) /\ sent' = sent
       ELSE IF NeedsRefresh
       THEN IF refreshToken = NoTok
            THEN OpenAIEnds(TRUE, "", "No OpenAI refresh token configured", log)
                 /\ sent' = sent
            ELSE /\ pc' = "await_refresh"
                 /\ log' = Append(log, "oauth.refresh")
                 /\ UNCHANGED <<result, fbData, err, reply, sent>>
       ELSE /\ pc' = "await_chat"
            /\ log' = Append(log, "openai.chat")
            /\ sent' = Append(sent, ChatRequest(accessToken, tokenExpiresAt, FALSE))
            /\ UNCHANGED <<result, fbData, err, reply>>
    /\ UNCHANGED <<inst, aux, tok, env, got, msg, arg, route, tested, sections, stage, caller>>

\* part_000:420 without its test: a response with no refresh_token clears the field
StoreRefreshUnguarded(e, rotate) ==
    /\ issued < MaxIssued
    /\ issued' = issued + 1
    /\ accessToken' = SrvTok(issued + 1)
    /\ refreshToken' = IF rotate THEN SrvTok(issued + 1) ELSE NoTok
    /\ tokenExpiresAt' = Expiry(now, e)

\* the assignments of part_000:419-421 without the last one
StoreRefreshKeepsExpiry(e, rotate) ==
    /\ issued < MaxIssued
    /\ issued' = issued + 1
    /\ accessToken' = SrvTok(issued + 1)
    /\ refreshToken' = IF rotate THEN SrvTok(issued + 1) ELSE refreshToken
    /\ tokenExpiresAt' = tokenExpiresAt

\* the assignments of _refreshAccessToken on a response, part_000:419-421
StoreRefresh(e, rotate) ==
    /\ issued < MaxIssued
    /\ issued' = issued + 1
    /\ accessToken' = SrvTok(issued + 1)
    /\ refreshToken' = IF rotate THEN SrvTok(issued + 1) ELSE refreshToken
    /\ tokenExpiresAt' = Expiry(now, e)

\* the response of the token endpoint: token number n, with or without a new
\* refresh token, declaring the lifetime e (0: none declared)
TokenResponse(n, e, rotate) ==
    [ access_token |-> SrvTok(n), refresh_token |-> IF rotate THEN SrvTok(n) ELSE NoTok,
      expires_in |-> e ]

\* _refreshAccessToken stores a response; race tells whether another call's token
\* request was in flight
Stored(e, rotate, race) ==
    LET r == TokenResponse(issued + 1, e, rotate)
    IN  /\ StoreRefresh(e, rotate)
        /\ wrote' = [ written |-> TRUE, access_token |-> r.access_token,
                      refresh_token |-> r.refresh_token, expires_in |-> r.expires_in,
                      at |-> now, raced |-> wrote.raced \/ race ]

\* a catch block that drops the access token it could not renew
RefreshFailsClearingToken ==
    /\ OpenAIEnds(TRUE, "", "OpenAI token refresh failed", log)
    /\ accessToken' = NoTok
    /\ UNCHANGED <<refreshToken, tokenExpiresAt, issued, sent, wrote>>

\* the token request fails: the catch of part_000:422-425 rethrows and assigns
\* nothing
RefreshFails ==
    /\ OpenAIEnds(TRUE, "", "OpenAI token refresh failed", log)
    /\ UNCHANGED <<tok, issued, sent, wrote>>

\* the proactive refresh settles; on success the chat request leaves
RefreshResolve ==
    /\ pc = "await_refresh"
    /\ \/ \E e \in ExpiresIn, rotate \in BOOLEAN :
            /\ Stored(e, rotate, FALSE)
            /\ pc' = "await_chat"
            /\ log' = Append(log, "openai.chat")
            /\ sent' = Append(sent, ChatRequest(accessToken', tokenExpiresAt', FALSE))
            /\ UNCHANGED <<result, fbData, err, reply>>
       \/ RefreshFails
    /\ UNCHANGED <<inst, input, out, seen, calls, now, got, msg, arg, route, tested, sections,
                   stage, caller, entry>>

\* the chat-completion request settles, part_000:456-483
ChatResolve ==
    /\ pc = "await_chat"
    /\ \/ \E t \in Answers \cup { "" } : OpenAIEnds(FALSE, t, "", log)
       \/ \E e \in { "OpenAI API timed out", "OpenAI API error" } :
            OpenAIEnds(TRUE, "", e, log)
       \/ \* 401: one refresh, then one retry
          IF refreshToken = NoTok
          THEN OpenAIEnds(TRUE, "", "No OpenAI refresh token configured",
                          Append(log, "401"))
          ELSE /\ pc' = "await_refresh401"
               /\ log' = log \o << "401", "oauth.refresh" >>
               /\ UNCHANGED <<result, fbData, err, reply>>
    /\ UNCHANGED <<inst, aux, tok, env, got, msg, arg, route, tested, sections, stage, caller,
                   entry, sent>>

RetryTokenStale(old, fresh) == old

\* part_000:468: the retry reads the token field again after the refresh
RetryToken(old, fresh) == fresh

\* the reactive refresh settles; on success the retry leaves
Refresh401Resolve ==
    /\ pc = "await_refresh401"
    /\ \/ \E e \in ExpiresIn, rotate \in BOOLEAN :
            /\ Stored(e, rotate, FALSE)
            /\ pc' = "await_retry"
            /\ log' = Append(log, "openai.chat")
            /\ sent' = Append(sent, ChatRequest(RetryToken(accessToken, accessToken'),
                                                 tokenExpiresAt', TRUE))
            /\ UNCHANGED <<result, fbData, err, reply>>
       \/ RefreshFails
    /\ UNCHANGED <<inst, input, out, seen, calls, now, got, msg, arg, route, tested, sections,
                   stage, caller, entry>>

\* a catch that treats a 401 of the retry like the first one: refresh and retry again
RetryFailsRetrying(e) ==
    IF e = "401" /\ refreshToken # NoTok /\ Len(sent) < MaxIssued
    THEN /\ pc' = "await_retry"
         /\ log' = log \o << "401", "oauth.refresh", "openai.chat" >>
         /\ sent' = Append(sent, ChatRequest(accessToken, tokenExpiresAt, TRUE))
         /\ UNCHANGED <<result, fbData, err, reply>>
    ELSE OpenAIEnds(TRUE, "", e, log) /\ UNCHANGED sent

\* the retry fails: the inner catch rethrows, part_000:475-478
RetryFails(e) == OpenAIEnds(TRUE, "", e, log) /\ UNCHANGED sent

\* the retry settles: its text or null is returned, its error is rethrown
RetryResolve ==
    /\ pc = "await_retry"
    /\ \/ \E t \in Answers \cup { "" } :
            OpenAIEnds(FALSE, t, "", log) /\ UNCHANGED sent
       \/ \E e \in { "401", "OpenAI API error" } : RetryFails(e)
    /\ UNCHANGED <<inst, aux, tok, env, got, msg, arg, route, tested, sections, stage, caller,
                   entry>>

\* time passes while a request is in flight and between messages
Tick ==
    /\ pc \in Awaiting \cup { "idle" }
    /\ now < MaxTicks * TickMs
    /\ now' = now + TickMs
    /\ UNCHANGED <<inst, aux, tok, issued, pc, log, result, loc, got>>

---------------------------------------------------------------------------
(* Text functions, part_000:106-114 and 341-347 *)

Digits == { "0", "1", "2", "3", "4", "5", "6", "7", "8", "9" }

\* \w of a regular expression
WordChar(c) == IndexIn(LowerCase, c) # 0 \/ IndexIn(UpperCase, c) # 0 \/ c \in Digits \/ c = "_"

\* the literal lit stands in s at position i
MatchAt(s, i, lit) ==
    /\ i >= 1
    /\ i + Len(lit) - 1 <= Len(s)
    /\ \A k \in 1..Len(lit) : s[i + k - 1] = lit[k]

\* \b of a regular expression, between positions i - 1 and i of s
Boundary(s, i) ==
    (i > 1 /\ i - 1 <= Len(s) /\ WordChar(s[i - 1])) # (i <= Len(s) /\ WordChar(s[i]))

\* the first alternative of alts, in order, that stands in s at i; 0 if none
FirstAlt(s, i, alts) ==
    IF \E k \in 1..Len(alts) : MatchAt(s, i, alts[k])
    THEN CHOOSE k \in 1..Len(alts) :
            /\ MatchAt(s, i, alts[k])
            /\ \A j \in 1..(k - 1) : ~MatchAt(s, i, alts[j])
    ELSE 0

\* the same, for an alternation enclosed in \b ... \b
FirstWordAlt(s, i, alts) ==
    LET fits(k) == /\ MatchAt(s, i, alts[k])
                   /\ Boundary(s, i)
                   /\ Boundary(s, i + Len(alts[k]))
    IN  IF \E k \in 1..Len(alts) : fits(k)
        THEN CHOOSE k \in 1..Len(alts) : fits(k) /\ \A j \in 1..(k - 1) : ~fits(j)
        ELSE 0

RECURSIVE SkipSpace(_, _)
\* \s*: the first position from i on that holds no white space
SkipSpace(s, i) == IF i <= Len(s) /\ s[i] \in WhiteSpace THEN SkipSpace(s, i + 1) ELSE i

\* part_000:343, first replace: /^(can you |please |...)/gi
PolitePrefixes ==
    << << "c", "a", "n", " ", "y", "o", "u", " " >>,
       << "p", "l", "e", "a", "s", "e", " " >>,
       << "h", "e", "y", " " >>,
       << "c", "o", "u", "l", "d", " ", "y", "o", "u", " " >>,
       << "i", " ", "w", "a", "n", "t", " ", "t", "o", " " >>,
       << "i", " ", "n", "e", "e", "d", " ", "t", "o", " " >> >>

\* part_000:343, second replace: the alternatives in the order of the
\* pattern, what'?s? spelt out longest first
CommandWords ==
    << << "s", "e", "a", "r", "c", "h" >>,
       << "f", "i", "n", "d" >>,
       << "l", "o", "o", "k" >>,
       << "c", "h", "e", "c", "k" >>,
       << "s", "h", "o", "w" >>,
       << "g", "e", "t" >>,
       << "l", "i", "s", "t" >>,
       << "s", "e", "e" >>,
       << "v", "i", "e", "w" >>,
       << "o", "p", "e", "n" >>,
       << "m", "y" >>,
       << "o", "n" >>,
       << "i", "n" >>,
       << "t", "h", "e" >>,
       << "m", "e" >>,
       << "t", "h", "r", "o", "u", "g", "h" >>,
       << "f", "o", "r" >>,
       << "a", "t" >>,
       << "a", "l", "l" >>,
       << "u", "p" >>,
       << "w", "h", "a", "t", "'", "s" >>,
       << "w", "h", "a", "t", "'" >>,
       << "w", "h", "a", "t", "s" >>,
       << "w", "h", "a", "t" >>,
       << "i", "s" >>,
       << "a", "r", "e" >>,
       << "d", "o" >>,
       << "d", "o", "e", "s" >> >>

\* part_000:343, third replace: the alternatives of \b(...)\b, the optional
\* plural tried first
DriveNouns ==
    << << "d", "r", "i", "v", "e" >>,
       << "f", "i", "l", "e", "s" >>,
       << "f", "i", "l", "e" >>,
       << "d", "o", "c", "u", "m", "e", "n", "t", "s" >>,
       << "d", "o", "c", "u", "m", "e", "n", "t" >>,
       << "f", "o", "l", "d", "e", "r", "s" >>,
       << "f", "o", "l", "d", "e", "r" >>,
       << "g", "o", "o", "g", "l", "e" >>,
       << "r", "e", "c", "e", "n", "t" >>,
       << "s", "t", "u", "f", "f" >>,
       << "t", "h", "i", "n", "g", "s" >>,
       << "t", "h", "i", "n", "g" >>,
       << "c", "o", "n", "t", "e", "n", "t" >> >>

\* part_000:344: the residues replaced by the default term
StopTokens ==
    { << "o", "r" >>,
      << "n", "o", "t" >>,
      << "t", "o" >>,
      << "i", "t" >>,
      << "a" >>,
      << "a", "n" >>,
      << "i" >>,
      << "a", "n", "d" >>,
      << "b", "u", "t" >>,
      << "s", "o" >>,
      << "h", "o", "w" >>,
      << "c", "a", "n" >>,
      << "h", "a", "s" >>,
      << "h", "a", "v", "e" >>,
      << "h", "a", "d" >> }

RECURSIVE DropCommands(_, _, _)
\* .replace(/(search|find|...)\s*/gi, ''), scanning s from i; low is s in lower case
DropCommands(s, low, i) ==
    IF i > Len(s) THEN << >>
    ELSE LET k == FirstAlt(low, i, CommandWords)
         IN  IF k # 0
             THEN DropCommands(s, low, SkipSpace(s, i + Len(CommandWords[k])))
             ELSE << s[i] >> \o DropCommands(s, low, i + 1)

RECURSIVE DropNouns(_, _, _)
\* .replace(/\b(drive|files?|...)\b/gi, '')
DropNouns(s, low, i) ==
    IF i > Len(s) THEN << >>
    ELSE LET k == FirstWordAlt(low, i, DriveNouns)
         IN  IF k # 0
             THEN DropNouns(s, low, i + Len(DriveNouns[k]))
             ELSE << s[i] >> \o DropNouns(s, low, i + 1)

\* .replace(/^(can you |please |...)/gi, '')
DropPolite(s) ==
    LET k == FirstAlt(toLowerCase(s), 1, PolitePrefixes)
    IN  IF k # 0 THEN SubSeq(s, Len(PolitePrefixes[k]) + 1, Len(s)) ELSE s

\* .replace(/[?!.,]/g, '')
DropPunctuation(s) == SelectSeq(s, LAMBDA c : c \notin { "?", "!", ".", "," })

\* the searchTerm of _analyzeGoogleData's drive branch, part_000:343-344
DriveSearchTerm(message) ==
    LET a == DropPolite(message)
        b == DropCommands(a, toLowerCase(a), 1)
        c == DropNouns(b, toLowerCase(b), 1)
        t == trim(DropPunctuation(c))
    IN  IF t = << >> \/ Len(t) < 3 \/ toLowerCase(t) \in StopTokens
        THEN << "r", "e", "c", "e", "n", "t" >> ELSE t

\* the characters . of a regular expression does not match
LineTerminators == { "\n" }

\* no line terminator in s from position a up to, not including, b
SameLine(s, a, b) == \A k \in a..(b - 1) : s[k] \notin LineTerminators

\* the occurrences of \b(l1|l2|...)\b in s
Occurrences(s, lits) ==
    { [ from |-> i, to |-> i + Len(l) ] :
        <<i, l>> \in { <<i, l>> \in (1..Len(s)) \X lits :
                        MatchAt(s, i, l) /\ Boundary(s, i) /\ Boundary(s, i + Len(l)) } }

\* \b(A)\b.*\b(B)\b.*\b(C)\b
Shape(s, A, B, D) ==
    \E x \in Occurrences(s, A), y \in Occurrences(s, B), z \in Occurrences(s, D) :
        /\ x.to <= y.from /\ SameLine(s, x.to, y.from)
        /\ y.to <= z.from /\ SameLine(s, y.to, z.from)

\* part_000:109
SequencingWords == { << "a", "n", "d", " ", "t", "h", "e", "n" >>,
      << "t", "h", "e", "n" >>,
      << "a", "f", "t", "e", "r", " ", "t", "h", "a", "t" >>,
      << "a", "l", "s", "o" >>,
      << "n", "e", "x", "t" >>,
      << "f", "i", "n", "a", "l", "l", "y" >> }

\* \b(first.*then)\b
FirstThen(s) ==
    \E i \in 1..Len(s), j \in 1..Len(s) :
        /\ MatchAt(s, i, << "f", "i", "r", "s", "t" >>) /\ Boundary(s, i)
        /\ j >= i + 5 /\ MatchAt(s, j, << "t", "h", "e", "n" >>) /\ Boundary(s, j + 4)
        /\ SameLine(s, i + 5, j)

\* _isMultiStepRequest on the characters of the message, part_000:106-114
isMultiStepRequest(message) ==
    LET lower == toLowerCase(message)
    IN  \/ Occurrences(lower, SequencingWords) # {}
        \/ FirstThen(lower)
        \/ Shape(lower, { << "r", "e", "s", "e", "a", "r", "c", "h" >>,
                       << "f", "i", "n", "d" >>,
                       << "l", "o", "o", "k", " ", "u", "p" >> }, { << "a", "n", "d" >>, << "t", "h", "e", "n" >> }, { << "s", "e", "n", "d" >>,
                       << "e", "m", "a", "i", "l" >>,
                       << "c", "r", "e", "a", "t", "e" >>,
                       << "w", "r", "i", "t", "e" >>,
                       << "d", "r", "a", "f", "t" >>,
                       << "s", "u", "m", "m", "a", "r", "i", "z", "e" >> })
        \/ Shape(lower, { << "c", "h", "e", "c", "k" >>,
                       << "g", "e", "t" >>,
                       << "r", "e", "a", "d" >> }, { << "a", "n", "d" >>, << "t", "h", "e", "n" >> }, { << "t", "e", "l", "l" >>,
                       << "s", "e", "n", "d" >>,
                       << "u", "p", "d", "a", "t", "e" >>,
                       << "c", "r", "e", "a", "t", "e" >> })

---------------------------------------------------------------------------
(* Inputs and specifications *)

Prefixes == { <<>>, ClaudePrefix, GeminiPrefix, AgentPrefix, PlanPrefix }

\* a message is at most MaxPhrases units: phrases, the first unit possibly
\* an override prefix
Messages ==
    Bodies \cup { p \o b : p \in Prefixes, b \in PickPhrases(1, MaxPhrases - 1) }

\* every skill present and ready, and each skill in turn absent or not
\* ready (the empty registry is the constructor's default)
Registries ==
    { FullRegistry,
      [ FullRegistry EXCEPT !.geminiImage = FALSE ],
      [ FullRegistry EXCEPT !.geminiVideo = FALSE ],
      [ FullRegistry EXCEPT !.weather = FALSE ],
      [ FullRegistry EXCEPT !.googleWorkspace = "absent" ],
      [ FullRegistry EXCEPT !.googleWorkspace = "notReady" ],
      [ FullRegistry EXCEPT !.scheduler = "absent" ],
      [ FullRegistry EXCEPT !.scheduler = "noBot" ],
      [ FullRegistry EXCEPT !.braveSearch = FALSE ] }

SkillArgs(regs) ==
    { [ given |-> TRUE, reg |-> r ] : r \in regs }
    \cup { [ given |-> FALSE, reg |-> EmptyRegistry ] }

\* a constructor that takes the configured access token to be good for an hour
initialExpiresAtLater == 3600 * 1000

\* this._tokenExpiresAt = 0, part_000:31
initialExpiresAt == 0

\* the state after new SmartBrain(), part_000:24-36, with the given
\* configuration of credentials
Constructed(access, refresh, key) ==
    /\ skills = EmptyRegistry
    /\ agent = NoAgent
    /\ geminiApiKey = key
    /\ memoryContext = ""
    /\ learnedContext = ""
    /\ accessToken = access
    /\ refreshToken = refresh
    /\ tokenExpiresAt = initialExpiresAt
    /\ now = 0
    /\ issued = 0
    /\ pc = "idle"
    /\ msg = <<>>
    /\ arg = <<>>
    /\ route = "none"
    /\ tested = 0
    /\ log = <<>>
    /\ sections = <<>>
    /\ stage = 1
    /\ caller = ""
    /\ fbData = <<>>
    /\ entry = NoEntry
    /\ sent = <<>>
    /\ err = ""
    /\ reply = ""
    /\ result = NoResult
    /\ got = Pending

\* no text function is under study
\* no _callOpenAI call is followed on its own
NoCalls == calls = << >> /\ wrote = NotWritten

Unapplied == input = << >> /\ out = NoOut /\ seen = << >> /\ NoCalls

\* the next message arrives; inits are the outcomes of the agent system's
\* constructors that the environment allows
ThinkCall(msgs, regs, inits) ==
    /\ pc = "idle"
    /\ \E m \in msgs, a \in SkillArgs(regs), ag \in inits : Think(m, a, ag)
    /\ UNCHANGED seen

\* a deployment without credentials for the powerful backend
Init == Constructed(NoTok, NoTok, TRUE) /\ Unapplied

Next ==
    \/ ThinkCall(Messages, Registries, InitOutcomes)
    \/ MediaResolve
    \/ VideoResolve
    \/ WeatherResolve
    \/ ParseEmailResolve
    \/ SendEmailResolve
    \/ ParseReminderResolve
    \/ AddReminderResolve
    \/ OrchestratorResolve
    \/ AgentResolve
    \/ PlanResolve
    \/ ClassifyResolve
    \/ FetchResolve
    \/ AnalyzeResolve
    \/ ComposeCtx
    \/ CtxResolve
    \/ Prefetch
    \/ PrefetchResolve
    \/ CallOpenAI
    \/ GeminiDataResolve
    \/ GeminiResolve
    \/ Return

Spec == Init /\ [][Next]_vars

\* messages that reach the powerful backend: by override with and without
\* prefetched data, and by compose mode
BackendMessages ==
    { ClaudePrefix \o << "hello" >>, ClaudePrefix \o << "latest news" >>,
      ClaudePrefix \o << "send an email to bob", "what's on my calendar" >>,
      << "draft a reply" >> }

\* a deployment with any configuration of credentials, whose agent system
\* initialises
InitBackend ==
    \E access \in { NoTok, CfgTok }, refresh \in { NoTok, CfgTok }, key \in BOOLEAN :
        Constructed(access, refresh, key) /\ Unapplied

NextBackend ==
    \/ ThinkCall(BackendMessages, { FullRegistry }, { AgentReady })
    \/ ComposeCtx
    \/ CtxResolve
    \/ Prefetch
    \/ PrefetchResolve
    \/ CallOpenAI
    \/ RefreshResolve
    \/ ChatResolve
    \/ Refresh401Resolve
    \/ RetryResolve
    \/ GeminiDataResolve
    \/ GeminiResolve
    \/ Tick
    \/ Return

SpecBackend == InitBackend /\ [][NextBackend]_vars

---------------------------------------------------------------------------
(* A run of think() calls on one instance, each call remembered with the  *)
(* route it took, part_000:116-120 and 248-262                            *)

MaxCalls == 3

\* a compound request, a plain one and an override
RouteMessages == { << "do this and then that" >>, << "hello" >>,
                   AgentPrefix \o << "hello" >> }

\* think() is called and the call is remembered
ThinkRecorded ==
    /\ pc = "idle"
    /\ Len(seen) < MaxCalls
    /\ \E m \in RouteMessages, a \in SkillArgs({ FullRegistry }), ag \in InitOutcomes :
         /\ Think(m, a, ag)
         /\ seen' = Append(seen, [ msg |-> m, skills |-> a, route |-> route' ])

NextRoutes ==
    \/ ThinkRecorded
    \/ OrchestratorResolve
    \/ AgentResolve
    \/ ClassifyResolve
    \/ Prefetch
    \/ CallOpenAI
    \/ GeminiResolve
    \/ Return

SpecRoutes == Init /\ [][NextRoutes]_vars

---------------------------------------------------------------------------
(* Several _callOpenAI calls in flight on one instance, part_000:410-484. *)
(* Each await is a point where another call may run; the token fields are *)
(* shared.                                                                *)

MaxInFlight == 2

maxPromptLen == 100000

\* the literal of the retry request, part_000:472
retryPromptLen == 100000

Min(a, b) == IF a < b THEN a ELSE b

\* a prompt as sent: how many of its leading characters, and whether the
\* truncation marker follows them
Body(chars, marker) == [ chars |-> chars, marker |-> marker ]

\* part_000:438
safePrompt(n) == IF n > maxPromptLen THEN Body(maxPromptLen, TRUE) ELSE Body(n, FALSE)

\* prompt.substring(0, 100000), part_000:472
retryPrompt(n) == Body(Min(n, retryPromptLen), FALSE)

\* prompts at and above the ceiling
PromptLengths == { maxPromptLen, maxPromptLen + 1 }

\* a chat-completion request as call c sent it
Request(token, body, retry) == [ made |-> TRUE, token |-> token, body |-> body,
                                 retry |-> retry ]

NoRequest == [ made |-> FALSE, token |-> NoTok, body |-> Body(0, FALSE), retry |-> FALSE ]

\* req is the latest request of the call, err what it threw
NewCall(n) == [ pc |-> "start", prompt |-> n, req |-> NoRequest, err |-> "" ]

\* the token request of another call is in flight as well
RefreshInFlight(c) ==
    \E d \in DOMAIN calls : d # c /\ calls[d].pc \in { "await_refresh", "await_refresh401" }

Threw(r, e) == [ r EXCEPT !.pc = "threw", !.err = e ]

\* what call c leaves alone apart from calls, wrote and the token fields
OtherCallsOnly ==
    UNCHANGED <<inst, input, out, seen, now, pc, log, result, loc, got>>

\* _callOpenAI up to its first await: safePrompt and _getValidToken, part_000:437-439
Enter(c) ==
    LET r == calls[c]
    IN  /\ r.pc = "start"
        /\ calls' = [ calls EXCEPT ![c] =
              IF NoCredentials THEN Threw(r, "No OpenAI credentials configured")
              ELSE IF NeedsRefresh
              THEN IF refreshToken = NoTok
                   THEN Threw(r, "No OpenAI refresh token configured")
                   ELSE [ r EXCEPT !.pc = "await_refresh" ]
              ELSE [ r EXCEPT !.pc = "await_chat",
                              !.req = Request(accessToken, safePrompt(r.prompt), FALSE) ] ]
        /\ UNCHANGED <<tok, issued, wrote>>
        /\ OtherCallsOnly

\* the request call c sends once its refresh is stored: the first one carries
\* safePrompt (part_000:440-455), the one after a 401 the retry prompt (468-473)
AfterRefresh(r, token) ==
    IF r.pc = "await_refresh"
    THEN [ r EXCEPT !.pc = "await_chat",
                    !.req = Request(token, safePrompt(r.prompt), FALSE) ]
    ELSE [ r EXCEPT !.pc = "await_retry",
                    !.req = Request(token, retryPrompt(r.prompt), TRUE) ]

\* the token request of call c settles, part_000:414-426; on success the call
\* resumes, reads the token field and sends its request
RefreshAnswered(c) ==
    LET r == calls[c]
    IN  /\ r.pc \in { "await_refresh", "await_refresh401" }
        /\ \/ \E e \in ExpiresIn, rotate \in BOOLEAN :
                /\ Stored(e, rotate, RefreshInFlight(c))
                /\ calls' = [ calls EXCEPT ![c] = AfterRefresh(r, accessToken') ]
           \/ /\ calls' = [ calls EXCEPT ![c] =
                      Threw(r, "OpenAI token refresh failed") ]
              /\ UNCHANGED <<tok, issued, wrote>>
        /\ OtherCallsOnly

\* the chat-completion request of call c settles, part_000:456-483
ChatAnswered(c) ==
    LET r == calls[c]
    IN  /\ r.pc = "await_chat"
        /\ \/ calls' = [ calls EXCEPT ![c] =
                  [ r EXCEPT !.pc = "returned" ] ]
           \/ calls' = [ calls EXCEPT ![c] =
                  Threw(r, "OpenAI API error") ]
           \/ calls' = [ calls EXCEPT ![c] =
                  IF refreshToken = NoTok
                  THEN Threw(r, "No OpenAI refresh token configured")
                  ELSE [ r EXCEPT !.pc = "await_refresh401" ] ]
        /\ UNCHANGED <<tok, issued, wrote>>
        /\ OtherCallsOnly

\* the retry request of call c settles, part_000:474-478
RetryAnswered(c) ==
    LET r == calls[c]
    IN  /\ r.pc = "await_retry"
        /\ \/ calls' = [ calls EXCEPT ![c] =
                  [ r EXCEPT !.pc = "returned" ] ]
           \/ calls' = [ calls EXCEPT ![c] =
                  Threw(r, "OpenAI API error") ]
        /\ UNCHANGED <<tok, issued, wrote>>
        /\ OtherCallsOnly

\* a deployment with both tokens configured, and MaxInFlight calls with the same
\* prompt about to start within the same millisecond
InitConcurrent ==
    /\ Constructed(CfgTok, CfgTok, TRUE)
    /\ input = << >> /\ out = NoOut /\ seen = << >>
    /\ \E n \in PromptLengths : calls = [ c \in 1..MaxInFlight |-> NewCall(n) ]
    /\ wrote = NotWritten

NextConcurrent ==
    \/ \E c \in DOMAIN calls : Enter(c)
    \/ \E c \in DOMAIN calls : RefreshAnswered(c)
    \/ \E c \in DOMAIN calls : ChatAnswered(c)
    \/ \E c \in DOMAIN calls : RetryAnswered(c)

SpecConcurrent == InitConcurrent /\ [][NextConcurrent]_vars

---------------------------------------------------------------------------
(* The text functions on their own: classifyMessage on a model output,    *)
(* the drive search term and _isMultiStepRequest on a message.            *)

\* the words sentences are made of
Vocabulary ==
    << << "s", "e", "a", "r", "c", "h" >>,
       << "d", "r", "i", "v", "e" >>,
       << "i", "n", "v", "o", "i", "c", "e", "s" >>,
       << "f", "i", "n", "d" >>,
       << "a", "n", "d" >>,
       << "s", "e", "n", "d" >>,
       << "f", "i", "r", "s", "t" >>,
       << "s", "t", "r", "e", "n", "g", "t", "h", "e", "n" >>,
       << "t", "h", "e", "n" >> >>

\* what separates the words of a sentence
Separators == { " ", "\n" }

RECURSIVE Join(_, _)
Join(ws, sep) ==
    IF Len(ws) = 0 THEN << >>
    ELSE IF Len(ws) = 1 THEN Vocabulary[ws[1]]
    ELSE Vocabulary[ws[1]] \o << sep >> \o Join(Tail(ws), sep)

Sentences ==
    { Join(ws, sep) :
        <<ws, sep>> \in (UNION { [ 1..n -> 1..Len(Vocabulary) ] : n \in 1..MaxWords })
                        \X Separators }

\* messages of the product documentation and one with capitals and punctuation
Examples ==
    { << "c", "a", "n", " ", "y", "o", "u", " ", "s", "e", "a", "r", "c", "h", " ", "m", "y", " ", "d", "r", "i", "v", "e", " ", "f", "o", "r", " ", "i", "n", "v", "o", "i", "c", "e", "s" >>,
      << "c", "h", "e", "c", "k", " ", "d", "r", "i", "v", "e" >>,
      << "r", "e", "s", "e", "a", "r", "c", "h", " ", "c", "o", "m", "p", "e", "t", "i", "t", "o", "r", " ", "p", "r", "i", "c", "i", "n", "g", " ", "a", "n", "d", " ", "t", "h", "e", "n", " ", "e", "m", "a", "i", "l", " ", "m", "e", " ", "a", " ", "s", "u", "m", "m", "a", "r", "y" >>,
      << "w", "h", "a", "t", "'", "s", " ", "t", "h", "e", " ", "w", "e", "a", "t", "h", "e", "r", " ", "t", "o", "d", "a", "y" >>,
      << "F", "i", "n", "d", " ", "T", "a", "x", " ", "f", "i", "l", "e", "s", ",", " ", "p", "l", "e", "a", "s", "e", "!" >> }

Texts == Sentences \cup Examples \cup ClassifierTexts

InitText ==
    /\ Constructed(NoTok, NoTok, TRUE)
    /\ input \in Texts /\ out = NoOut /\ seen = << >> /\ NoCalls

\* a function is applied to the input, once
Applied(o) ==
    /\ out.fn = "none"
    /\ out' = o
    /\ UNCHANGED <<inst, tok, env, pc, log, result, loc, input, got, seen, calls, wrote>>

\* classifyMessage on a response whose text is the input, on one without
\* text and on a failed request
ClassifyText ==
    \/ Applied([ fn |-> "classifyMessage", case |-> "answered",
                 val |-> << classifyMessage(Answered(input)) >>, flag |-> FALSE ])
    \/ Applied([ fn |-> "classifyMessage", case |-> "no text",
                 val |-> << classifyMessage(NoText) >>, flag |-> FALSE ])
    \/ Applied([ fn |-> "classifyMessage", case |-> "failed",
                 val |-> << classifyMessage(Failed) >>, flag |-> FALSE ])

DeriveSearchTerm ==
    Applied([ fn |-> "searchTerm", case |-> "", val |-> DriveSearchTerm(input),
              flag |-> FALSE ])

DetectMultiStep ==
    Applied([ fn |-> "_isMultiStepRequest", case |-> "", val |-> << >>,
              flag |-> isMultiStepRequest(input) ])

NextText ==
    \/ ClassifyText
    \/ DeriveSearchTerm
    \/ DetectMultiStep

SpecText == InitText /\ [][NextText]_vars

---------------------------------------------------------------------------
(* Properties *)

Range(s) == { s[i] : i \in 1..Len(s) }

Count(s, e) == Cardinality({ i \in 1..Len(s) : s[i] = e })

\* the position of the first e in s, 0 when there is none
FirstAt(s, e) ==
    IF e \in Range(s) THEN CHOOSE i \in 1..Len(s) : s[i] = e /\ \A j \in 1..(i - 1) : s[j] # e
    ELSE 0

\* the handlers think() can dispatch to
Handlers ==
    { "geminiImage.upscale", "geminiImage.ultraGenerate", "geminiImage.generate",
      "geminiVideo.generateVideo", "weather.get", "weather.getForecast",
      "_handleSendEmail", "_handleReminder", "_composeWithClaude", "_analyzeGoogleData",
      "thinkWithClaude", "thinkWithGemini", "orchestrator.route", "agentLoop.run",
      "planner.planAndExecute" }

RECURSIVE ThinkCalls(_, _)
\* the handlers and the classifier as think() itself called them, in order
\* (thinkWithGemini called by _fallbackToGemini is not a call of think())
ThinkCalls(l, i) ==
    IF i > Len(l) THEN <<>>
    ELSE (IF /\ l[i] \in Handlers \cup { "classifyMessage" }
             /\ ~(i > 1 /\ l[i - 1] = "_fallbackToGemini")
          THEN << l[i] >> ELSE <<>>) \o ThinkCalls(l, i + 1)

IsOverride(m) ==
    \/ StartsWith(m, ClaudePrefix) \/ StartsWith(m, GeminiPrefix)
    \/ StartsWith(m, AgentPrefix) \/ StartsWith(m, PlanPrefix)

\* the order of the categories as the claim gives it, after the override prefixes
ClaimOrder ==
    << "upscale", "ultra", "image", "video", "weather", "send-email", "reminder",
       "compose-document", "compose-draft", "compose-summarize",
       "read-calendar", "read-email", "read-drive", "web-search", "multi-step" >>

\* the earliest category whose pattern matches m, counting only the
\* categories in `live`
Earliest(m, live) ==
    LET hit == { i \in 1..Len(ClaimOrder) : ClaimOrder[i] \in live /\ Pattern(ClaimOrder[i], m) }
    IN  IF IsOverride(m) THEN "override-prefix"
        ELSE IF hit = {} THEN "classify"
        ELSE ClaimOrder[CHOOSE i \in hit : \A j \in hit : i <= j]

CategoryOf(r) == IF r \in { "/claude", "/gemini", "/agent", "/plan" } THEN "override-prefix" ELSE r

\* the handler think() calls first for a category
FirstHandlers(c) ==
    CASE c = "override-prefix" ->
            { "thinkWithClaude", "thinkWithGemini", "agentLoop.run", "planner.planAndExecute" }
      [] c = "upscale"    -> { "geminiImage.upscale" }
      [] c = "ultra"      -> { "geminiImage.ultraGenerate" }
      [] c = "image"      -> { "geminiImage.generate" }
      [] c = "video"      -> { "geminiVideo.generateVideo" }
      [] c = "weather"    -> { "weather.get", "weather.getForecast" }
      [] c = "send-email" -> { "_handleSendEmail" }
      [] c = "reminder"   -> { "_handleReminder" }
      [] c \in { "compose-document", "compose-draft", "compose-summarize" } ->
            { "_composeWithClaude" }
      [] c \in { "read-calendar", "read-email", "read-drive" } -> { "_analyzeGoogleData" }
      [] c = "web-search" -> { "thinkWithClaude" }
      [] c = "multi-step" -> { "orchestrator.route" }
      [] c = "classify"   -> { "classifyMessage" }

\* think() routed the running call as the category c and called c's handler
RoutedAs(c) ==
    /\ CategoryOf(route) = c
    /\ log # <<>> => log[1] \in FirstHandlers(c)

AllCategories == Range(ClaimOrder)

\* C1 as stated: with every skill present and ready, the handler invoked is
\* that of the earliest category, in the fixed order, whose pattern matches
\* the message.
C1_FirstMatchAsStated ==
    (pc # "idle" /\ skills = FullRegistry) => RoutedAs(Earliest(msg, AllCategories))

\* C1 amended: with every skill present and ready, the handler invoked is that
\* of the earliest category whose pattern matches the message, the multi-step
\* category counting only when the orchestrator was initialised; a later
\* category that also matches is never the one invoked.
C1_FirstMatchWins ==
    (pc # "idle" /\ skills = FullRegistry) =>
        RoutedAs(Earliest(msg, IF agent.orchestrator THEN AllCategories
                               ELSE AllCategories \ { "multi-step" }))

\* a message matching both the ultra-image and the image pattern was routed
\* to ultraGenerate
C1_Witness ==
    /\ pc = "await_media"
    /\ skills = FullRegistry
    /\ Pattern("ultra", msg) /\ Pattern("image", msg)
    /\ log = << "geminiImage.ultraGenerate" >>

\* the running call went through thinkWithClaude, its powerful-backend call
\* failed (it threw, or returned null) and the fallback was entered
PowerfulFailed == caller = "thinkWithClaude" /\ "_fallbackToGemini" \in Range(log)

\* the one fast-backend request of the fallback was answered with text
FastSucceeded ==
    /\ Count(log, "gemini.data") + Count(log, "gemini.chat") = 1
    /\ reply \in Answers

\* C2: when thinkWithClaude's powerful-backend call fails and the fast-backend
\* call that follows answers with non-empty text, thinkWithClaude returns
\* exactly that text and does not raise, with or without prefetched data.
C2_FallbackReturnsFastText ==
    (pc = "done" /\ PowerfulFailed /\ FastSucceeded) => result = Text(reply)

\* the powerful backend threw after data was prefetched, and the fast
\* backend's answer to the data prompt was returned
C2_Witness ==
    /\ pc = "done"
    /\ PowerfulFailed
    /\ FastSucceeded
    /\ err # ""
    /\ fbData # <<>>
    /\ result = Text(reply)

\* C3 as stated: when stage 2 (the fast backend with the prefetched data)
\* throws or answers with empty text, stage 3 (thinkWithGemini) is invoked
\* before a failure text is returned.
C3_ChainProgression ==
    (pc = "done" /\ "gemini.data" \in Range(log) /\ reply = "") =>
        "thinkWithGemini" \in Range(log)

\* C4 as stated: think() never rejects.
C4_ThinkNeverRaises == result.kind # "raised"

\* the token-refresh requests sent before the first chat-completion request
ProactiveRefreshes ==
    LET c == FirstAt(log, "openai.chat")
        upTo == IF c = 0 THEN Len(log) ELSE c
    IN  Cardinality({ i \in 1..upTo : log[i] = "oauth.refresh" })

\* _getValidToken is over: the chat request left, or _callOpenAI threw
ProactiveOver == entry.entered /\ pc \notin { "callOpenAI", "await_refresh" }

\* C5 as stated: with the stored expiry in the past the call issues exactly
\* one token-refresh request, completed before the chat-completion request;
\* with an access token held and a future expiry it issues none before it.
C5_ProactiveRefreshAsStated ==
    ProactiveOver =>
        /\ entry.expired => ProactiveRefreshes = 1
        /\ (~entry.expired /\ entry.access # NoTok) => ProactiveRefreshes = 0

\* C5 amended: with the stored expiry in the past and a refresh token held,
\* exactly one token-refresh request is issued and the first chat-completion
\* request, if any, carries the token of its response; with the expiry in the
\* past and no refresh token held, neither a refresh nor a chat-completion
\* request is sent; with an access token held and a future expiry no refresh
\* request precedes the chat-completion request, which carries the held token.
C5_ProactiveRefresh ==
    ProactiveOver =>
        /\ (entry.expired /\ entry.refresh) =>
              /\ ProactiveRefreshes = 1
              /\ sent # <<>> =>
                    /\ sent[1].token = SrvTok(entry.issued + 1)
                    /\ FirstAt(log, "oauth.refresh") < FirstAt(log, "openai.chat")
        /\ (entry.expired /\ ~entry.refresh) =>
              /\ Count(log, "oauth.refresh") = 0
              /\ sent = <<>>
        /\ (~entry.expired /\ entry.access # NoTok) =>
              /\ ProactiveRefreshes = 0
              /\ sent # <<>>
              /\ sent[1].token = entry.access

\* a call that found the token expired has refreshed once and sent the chat
\* request with the new token
C5_Witness ==
    /\ pc = "await_chat"
    /\ entry.expired
    /\ entry.access = CfgTok
    /\ Count(log, "oauth.refresh") = 1
    /\ sent[1].token = accessToken
    /\ accessToken # CfgTok

\* the handling of the 401 is over
ReactiveOver == "401" \in Range(log) /\ pc \notin { "await_refresh401", "await_retry" }

\* the events of the log after the 401 response
After401 == SubSeq(log, FirstAt(log, "401") + 1, Len(log))

\* C6 as stated: a 401 response triggers exactly one token refresh followed
\* by exactly one retry carrying the refreshed token, and nothing more.
C6_ReactiveRetryAsStated ==
    ReactiveOver =>
        /\ Count(After401, "oauth.refresh") = 1
        /\ Count(After401, "openai.chat") = 1

\* every refresh request of the running call was answered with a token
AllRefreshesAnswered == issued - entry.issued = Count(log, "oauth.refresh")

\* C6 amended: a 401 response to the chat-completion request triggers exactly
\* one token-refresh request; if it succeeds exactly one retry follows,
\* carrying the token of that response, and if it fails no retry is sent; in
\* both cases no further refresh or retry happens, and when the refresh or the
\* retry fails the error leaves _callOpenAI and the caller enters the
\* fast-backend fallback.
C6_ReactiveRetry ==
    "401" \in Range(log) =>
        /\ Count(log, "401") = 1
        /\ Count(After401, "oauth.refresh") = 1
        /\ Count(After401, "openai.chat") <= 1
        /\ Len(sent) = 1 + Count(After401, "openai.chat")
        /\ Len(sent) = 2 =>
              /\ sent[2].retry
              /\ sent[2].token = SrvTok(issued)
              /\ sent[2].token # sent[1].token
        /\ ReactiveOver =>
              /\ Count(After401, "openai.chat") = (IF AllRefreshesAnswered THEN 1 ELSE 0)
              /\ err # "" => "_fallbackToGemini" \in Range(log)
              /\ (err = "" /\ reply = "") => "_fallbackToGemini" \in Range(log)

\* the retry was answered 401 again: one refresh, one retry, then the fallback
C6_Witness ==
    /\ "401" \in Range(log)
    /\ Len(sent) = 2
    /\ err = "401"
    /\ Count(log, "oauth.refresh") = 2
    /\ pc \in { "await_geminiData", "await_gemini" }

\* C7 as stated: whenever a chat-completion request is sent, the token state
\* holds an access token whose stored expiry is strictly later than the
\* current time, whatever lifetime the refresh response declared.
C7_TokenValidWhenSent ==
    \A i \in 1..Len(sent) :
        sent[i].token # NoTok /\ sent[i].expiresAt > sent[i].at

\* C8 as stated: once think() has invoked a handler, it invokes no other
\* handler and no classifier for that message.
C8_OneRouteAsStated ==
    LET h == ThinkCalls(log, 1)
    IN  \A i \in 1..(Len(h) - 1) : h[i] = "classifyMessage"

\* C8 amended: once think() has invoked a handler it invokes no other handler
\* and no classifier for that message, except that on the multi-step path a
\* falsy orchestrator result is followed by one run of the agent loop, after
\* which nothing else is invoked.
C8_OneRoute ==
    LET h == ThinkCalls(log, 1)
    IN  /\ Len(h) <= 2
        /\ \A i \in 1..(Len(h) - 1) :
              \/ h[i] = "classifyMessage"
              \/ h[i] = "orchestrator.route" /\ h[i + 1] = "agentLoop.run"

\* the orchestrator returned a falsy result and the agent loop answered
C8_Witness ==
    /\ pc = "done"
    /\ route = "multi-step"
    /\ ThinkCalls(log, 1) = << "orchestrator.route", "agentLoop.run" >>
    /\ result.kind = "text"

\* the skill a guarded matcher needs is present and ready
SkillReady(c, sk) ==
    CASE c \in { "upscale", "ultra", "image" } -> sk.geminiImage
      [] c = "video"      -> sk.geminiVideo
      [] c = "weather"    -> sk.weather
      [] c \in { "send-email", "read-calendar", "read-email", "read-drive" }
                          -> sk.googleWorkspace = "ready"
      [] c = "reminder"   -> sk.scheduler = "ready"
      [] c = "web-search" -> sk.braveSearch

GuardedCategories ==
    { "upscale", "ultra", "image", "video", "weather", "send-email", "reminder",
      "read-calendar", "read-email", "read-drive", "web-search" }

\* C9 as stated: when a message matches a guarded matcher whose skill is
\* absent or not ready, no handler code of that matcher runs and the message
\* is not routed to it.
C9_SkipOnUnmetPrecondition ==
    \A c \in GuardedCategories :
        (pc # "idle" /\ ~IsOverride(msg) /\ Pattern(c, msg) /\ ~SkillReady(c, skills)) =>
            /\ route # c
            /\ c # "web-search" => Range(log) \cap FirstHandlers(c) = {}

OverrideTarget(m) ==
    CASE StartsWith(m, ClaudePrefix) -> [ prefix |-> ClaudePrefix, call |-> "thinkWithClaude", ready |-> TRUE ]
      [] StartsWith(m, GeminiPrefix) -> [ prefix |-> GeminiPrefix, call |-> "thinkWithGemini", ready |-> TRUE ]
      [] StartsWith(m, AgentPrefix)  -> [ prefix |-> AgentPrefix, call |-> "agentLoop.run", ready |-> agent.agentLoop ]
      [] StartsWith(m, PlanPrefix)   -> [ prefix |-> PlanPrefix, call |-> "planner.planAndExecute", ready |-> agent.planner ]

\* C10: a message beginning with an override prefix is handled only by the
\* named target, called with the prefix stripped; no intent matcher,
\* orchestrator or classifier is evaluated for it, and when the agent loop or
\* the planner is not initialised a fixed text is returned.
C10_OverrideBypassesRouting ==
    (pc # "idle" /\ IsOverride(msg)) =>
        LET t == OverrideTarget(msg)
        IN  /\ tested = 0
            /\ t.prefix \o arg = msg
            /\ ThinkCalls(log, 1) = (IF t.ready THEN << t.call >> ELSE <<>>)
            /\ ~t.ready =>
                  /\ log = <<>>
                  /\ pc = "done"
                  /\ result \in { Text("Agent loop not initialized."),
                                  Text("Planner not initialized.") }

\* "/agent upscale this" while the agent loop is not initialised
C10_Witness ==
    /\ pc = "done"
    /\ StartsWith(msg, AgentPrefix)
    /\ Hits(UpscaleRe, msg)
    /\ ~agent.agentLoop
    /\ result = Text("Agent loop not initialized.")

RECURSIVE StripLeft(_)
\* s without its leading white space
StripLeft(s) == IF s # << >> /\ Head(s) \in WhiteSpace THEN StripLeft(Tail(s)) ELSE s

RECURSIVE StripRight(_)
\* s without its trailing white space
StripRight(s) ==
    IF s # << >> /\ s[Len(s)] \in WhiteSpace THEN StripRight(SubSeq(s, 1, Len(s) - 1)) ELSE s

\* a and b are the same letter in either case, or the same character
SameLetter(a, b) ==
    \/ a = b
    \/ \E k \in 1..Len(LowerCase) : { a, b } = { LowerCase[k], UpperCase[k] }

\* s, trimmed, reads word whatever the case of its letters
ReadsAs(s, word) ==
    LET core == StripRight(StripLeft(s))
    IN  /\ Len(core) = Len(word)
        /\ \A i \in 1..Len(word) : SameLetter(core[i], word[i])

\* C11: classifyMessage returns the powerful-backend route only when the
\* model answered and its output, trimmed and compared case-insensitively, is
\* exactly ACTION; for any other output, for a response without text and for
\* a failed request it returns the fast route, and it always returns a route.
C11_ClassifierDefault ==
    out.fn = "classifyMessage" =>
        /\ out.val \in { << "claude" >>, << "gemini" >> }
        /\ out.val = << "claude" >> <=>
              (out.case = "answered" /\ ReadsAs(input, << "A", "C", "T", "I", "O", "N" >>))

\* an output in lower case with white space around it selects the powerful backend
C11_Witness ==
    /\ out.fn = "classifyMessage"
    /\ out.val = << "claude" >>
    /\ input = << " ", "a", "c", "t", "i", "o", "n", "\n" >>

---------------------------------------------------------------------------
(* C12: structured-parse handlers guard the skill call *)

\* the running call has invoked the skill method e
Invoked(e) == e \in Range(log)

\* the call is over and think() resolved with a text
Replied == pc = "done" /\ result.kind = "text"

\* C12: _handleSendEmail invokes googleWorkspace.sendEmail only when the parsed JSON
\* holds a non-empty `to`, and with `to` missing or empty it returns "I need a
\* recipient email address." without invoking it; _handleReminder invokes
\* scheduler.addReminder only when the parsed JSON holds a non-empty time and a
\* non-empty message, and otherwise returns a text; model output that holds no
\* JSON, or JSON that does not parse, ends both handlers with a returned text.
C12_ParseGuardsSkill ==
    /\ route = "send-email" =>
         /\ Invoked("googleWorkspace.sendEmail") =>
               got.kind = "object" /\ got.val["to"] \notin { Undefined, "" }
         /\ (got.kind = "object" /\ got.val["to"] \in { Undefined, "" }) =>
               /\ pc = "done"
               /\ result = Text("I need a recipient email address.")
               /\ ~Invoked("googleWorkspace.sendEmail")
         /\ got.kind \in { "prose", "garbled" } =>
               Replied /\ ~Invoked("googleWorkspace.sendEmail")
    /\ route = "reminder" =>
         /\ Invoked("scheduler.addReminder") =>
               /\ got.kind = "object"
               /\ got.val["time"] \notin { Undefined, "" }
               /\ got.val["message"] \notin { Undefined, "" }
         /\ (got.kind = "object" /\ (got.val["time"] \in { Undefined, "" }
                                     \/ got.val["message"] \in { Undefined, "" })) =>
               /\ Replied
               /\ result = Text("I couldn't parse the reminder.")
               /\ ~Invoked("scheduler.addReminder")
         /\ got.kind \in { "prose", "garbled" } =>
               Replied /\ ~Invoked("scheduler.addReminder")

\* the model's JSON had a subject and a body but no recipient, and the call is over
C12_Witness ==
    /\ route = "send-email"
    /\ got.kind = "object"
    /\ got.val["to"] = Undefined
    /\ got.val["subject"] = "text"
    /\ pc = "done"
    /\ result = Text("I need a recipient email address.")

---------------------------------------------------------------------------
(* C13, C14: analyze mode *)

ReadRoutes == { "read-calendar", "read-email", "read-drive" }

WorkspaceFetches == { "googleWorkspace.getRecentEmails", "googleWorkspace.getTodayEvents",
                      "googleWorkspace.searchFiles", "googleWorkspace.listRecentFiles" }

\* requests to the fast backend and to the powerful one, as the log names them
FastRequests == { e \in Range(log) : e \in { "gemini.analyze", "gemini.parse",
                    "gemini.classify", "gemini.chat", "gemini.data" } }

PowerfulRequests == { e \in Range(log) : e \in { "openai.chat", "oauth.refresh" } }

\* C13: when the workspace fetch of _analyzeGoogleData resolves with an empty result
\* or with a result that contains 'not configured', the call is over with the
\* "Google <dataType> is not set up properly." text and no request to the fast or
\* the powerful backend was made for the message.
C13_NotSetUpShortCircuit ==
    (/\ route \in ReadRoutes
     /\ got.kind = "data"
     /\ (got.val = << >> \/ \E i \in 1..Len(got.val) : got.val[i] = "not configured")) =>
        /\ pc = "done"
        /\ result \in { Text("Google email is not set up properly."),
                        Text("Google calendar is not set up properly."),
                        Text("Google drive is not set up properly.") }
        /\ FastRequests = {}
        /\ PowerfulRequests = {}
        /\ ~entry.entered

\* the drive fetch answered with a sentence that holds the marker
C13_Witness ==
    /\ route = "read-drive"
    /\ got.kind = "data"
    /\ Len(got.val) = 3
    /\ got.val[2] = "not configured"
    /\ pc = "done"
    /\ result = Text("Google drive is not set up properly.")

\* the workspace method that reads the category a data-read route stands for
CategoryFetch ==
    CASE route = "read-calendar" -> "googleWorkspace.getTodayEvents"
      [] route = "read-email"    -> "googleWorkspace.getRecentEmails"
      [] route = "read-drive"    -> "googleWorkspace.searchFiles"

\* C14: a message routed to a data-read intent performs exactly one workspace fetch,
\* that of the matched category, and at most one fast-backend request, the analysis
\* one; _callOpenAI is never entered and no chat-completion or token-refresh request
\* is sent, and once the analysis request has been made the call ends with a text
\* (the failure text included) with no fallback.
C14_AnalyzeUsesFastBackendOnly ==
    route \in ReadRoutes =>
        /\ \A e \in WorkspaceFetches : Count(log, e) = (IF e = CategoryFetch THEN 1 ELSE 0)
        /\ FastRequests \subseteq { "gemini.analyze" }
        /\ Count(log, "gemini.analyze") <= 1
        /\ PowerfulRequests = {}
        /\ ~entry.entered
        /\ ~Invoked("_fallbackToGemini")
        /\ pc \in { "await_fetch", "await_analyze", "done" }
        /\ pc = "done" => result.kind = "text"

\* the analysis request of a calendar read failed and the failure text was returned
C14_Witness ==
    /\ route = "read-calendar"
    /\ Invoked("gemini.analyze")
    /\ pc = "done"
    /\ result = Text("Failed to get calendar")

---------------------------------------------------------------------------
(* C15: drive search term *)

RECURSIVE SplitWords(_, _, _)
\* the set of whitespace-separated words of s from position i on, cur being the
\* word read so far
SplitWords(s, i, cur) ==
    IF i > Len(s) THEN (IF cur = << >> THEN {} ELSE { cur })
    ELSE IF s[i] \in WhiteSpace
         THEN (IF cur = << >> THEN {} ELSE { cur }) \cup SplitWords(s, i + 1, << >>)
         ELSE SplitWords(s, i + 1, Append(cur, s[i]))

WordsOf(s) == SplitWords(s, 1, << >>)

\* the message without ? ! . and ,
Unpunctuated(s) == SelectSeq(s, LAMBDA c : c \notin { "?", "!", ".", "," })

\* C15: the drive search term is the default 'recent' or is made of words of the
\* message left intact; 'can you search my drive for invoices' yields 'invoices'
\* and 'check drive' yields 'recent'.
C15_SearchTermKeepsContentWords ==
    out.fn = "searchTerm" =>
        /\ \/ out.val = << "r", "e", "c", "e", "n", "t" >>
           \/ WordsOf(out.val) \subseteq WordsOf(Unpunctuated(input))
        /\ input = 
              << "c", "a", "n", " ", "y", "o", "u", " ", "s", "e", "a", "r", "c", "h", " ", "m", "y", " ", "d", "r", "i", "v", "e", " ", "f", "o", "r", " ", "i", "n", "v", "o", "i", "c", "e", "s" >> =>
              out.val = << "i", "n", "v", "o", "i", "c", "e", "s" >>
        /\ input = << "c", "h", "e", "c", "k", " ", "d", "r", "i", "v", "e" >> => out.val = << "r", "e", "c", "e", "n", "t" >>

---------------------------------------------------------------------------
(* C16: multi-step detection *)

\* a word of A, later a word of B, later a word of D, each as a whole word
WordsInOrder(s, A, B, D) ==
    \E x \in Occurrences(s, A), y \in Occurrences(s, B), z \in Occurrences(s, D) :
        x.to <= y.from /\ y.to <= z.from

\* the messages C16 describes, on the lower-cased message: a sequencing word as a
\* whole word ("first" followed by "then" holds "then"), or one of the two shapes
DescribedAsMultiStep(s) ==
    \/ Occurrences(s, { << "a", "n", "d", " ", "t", "h", "e", "n" >>,
          << "t", "h", "e", "n" >>,
          << "a", "f", "t", "e", "r", " ", "t", "h", "a", "t" >>,
          << "a", "l", "s", "o" >>,
          << "n", "e", "x", "t" >>,
          << "f", "i", "n", "a", "l", "l", "y" >> }) # {}
    \/ WordsInOrder(s, { << "r", "e", "s", "e", "a", "r", "c", "h" >>,
          << "f", "i", "n", "d" >>,
          << "l", "o", "o", "k", " ", "u", "p" >> },
          { << "a", "n", "d" >>,
          << "t", "h", "e", "n" >> },
          { << "s", "e", "n", "d" >>,
          << "e", "m", "a", "i", "l" >>,
          << "c", "r", "e", "a", "t", "e" >>,
          << "w", "r", "i", "t", "e" >>,
          << "d", "r", "a", "f", "t" >>,
          << "s", "u", "m", "m", "a", "r", "i", "z", "e" >> })
    \/ WordsInOrder(s, { << "c", "h", "e", "c", "k" >>,
          << "g", "e", "t" >>,
          << "r", "e", "a", "d" >> },
          { << "a", "n", "d" >>,
          << "t", "h", "e", "n" >> },
          { << "t", "e", "l", "l" >>,
          << "s", "e", "n", "d" >>,
          << "u", "p", "d", "a", "t", "e" >>,
          << "c", "r", "e", "a", "t", "e" >> })

\* C16: _isMultiStepRequest returns true exactly for the messages that hold a
\* sequencing word as a whole word or one of the two verb ... and/then ... verb
\* shapes, whatever the letter case.
C16_MultiStepExactly ==
    out.fn = "_isMultiStepRequest" =>
        (out.flag <=> DescribedAsMultiStep(toLowerCase(input)))

---------------------------------------------------------------------------
(* C17: route determinism *)

\* C17: two think() calls on one instance that are given the same message and the
\* same skill registry take the same route, whatever calls came before or
\* between them.
C17_RouteDeterminism ==
    \A i \in 1..Len(seen), j \in 1..Len(seen) :
        (/\ seen[i].msg = seen[j].msg
         /\ seen[i].skills.given /\ seen[j].skills.given
         /\ seen[i].skills.reg = seen[j].skills.reg) =>
            seen[i].route = seen[j].route

---------------------------------------------------------------------------
(* C18: configuration error *)

\* C18: a _callOpenAI call entered with neither an access token nor a refresh token
\* sends no token-refresh and no chat-completion request, ends once with the error
\* 'No OpenAI credentials configured' and no retry, and the request goes on to
\* _fallbackToGemini, entered exactly once.
C18_ConfigurationErrorFailsFast ==
    (entry.entered /\ entry.access = NoTok /\ ~entry.refresh) =>
        /\ Count(log, "oauth.refresh") = 0
        /\ Count(log, "openai.chat") = 0
        /\ Count(log, "401") = 0
        /\ sent = << >>
        /\ err = "No OpenAI credentials configured"
        /\ Count(log, "_fallbackToGemini") = 1
        /\ pc \in { "await_geminiData", "await_gemini", "done" }

\* a compose call without credentials went to the fallback and was answered
C18_Witness ==
    /\ entry.entered /\ entry.access = NoTok /\ ~entry.refresh
    /\ caller = "_composeWithClaude"
    /\ err = "No OpenAI credentials configured"
    /\ Invoked("_fallbackToGemini")
    /\ pc = "done"
    /\ result.kind = "text"

---------------------------------------------------------------------------
(* C19: concurrent refreshes; C20: prompt truncation *)

\* every call in flight is over
AllOver == \A c \in DOMAIN calls : calls[c].pc \in { "returned", "threw" }

\* C19: with several _callOpenAI calls in flight, the stored access token and
\* expiry are always those of the token response stored last (both from that one
\* response), every chat-completion request carries a token some refresh returned,
\* and a call throws only the failure of its own token or chat request, never a
\* missing-credentials error brought about by another call's refresh.
C19_ConcurrentRefreshTolerated ==
    /\ wrote.written =>
          /\ accessToken = wrote.access_token
          /\ tokenExpiresAt =
                wrote.at + ((IF wrote.expires_in # 0 THEN wrote.expires_in ELSE 3600) * 1000)
                         - 60000
    /\ \A c \in DOMAIN calls :
          /\ calls[c].req.made =>
                calls[c].req.token.src = "server" /\ calls[c].req.token.n \in 1..issued
          /\ calls[c].pc = "threw" =>
                calls[c].err \in { "OpenAI token refresh failed", "OpenAI API error" }

\* two calls refreshed while the other's token request was in flight, sent their
\* requests with different tokens, and both returned
C19_Witness ==
    /\ DOMAIN calls # {}
    /\ \A c \in DOMAIN calls : calls[c].pc = "returned"
    /\ wrote.raced
    /\ \E c, d \in DOMAIN calls : calls[c].req.token # calls[d].req.token
    /\ accessToken = wrote.access_token

\* C20: every chat-completion request for a prompt longer than 100000 characters
\* carries its first 100000 characters followed by the truncation marker, and a
\* prompt of at most 100000 characters is sent whole with no marker, in the first
\* request and in the retry after a 401.
C20_PromptTruncation ==
    \A c \in DOMAIN calls :
        calls[c].req.made =>
            calls[c].req.body =
                IF calls[c].prompt > 100000
                THEN [ chars |-> 100000, marker |-> TRUE ]
                ELSE [ chars |-> calls[c].prompt, marker |-> FALSE ]

---------------------------------------------------------------------------
(* C21, C22: what a token refresh and a failed request do to the token fields *)

\* C21: a step in which _refreshAccessToken stores a response leaves the access
\* token equal to the response's access_token, the refresh token equal to the
\* response's refresh_token when it has one and unchanged (never cleared) when it
\* has none, and the expiry at now + expires_in * 1000 - 60000 ms, with 3600 s
\* when the response declares no lifetime.
C21_RefreshEffect ==
    [][ wrote' # wrote =>
          /\ accessToken' = wrote'.access_token
          /\ refreshToken' = IF wrote'.refresh_token # NoTok THEN wrote'.refresh_token
                                                             ELSE refreshToken
          /\ refreshToken' # NoTok
          /\ tokenExpiresAt' =
                now + (IF wrote'.expires_in # 0 THEN wrote'.expires_in ELSE 3600) * 1000
                    - 60000 ]_vars

\* a response with no refresh_token and no lifetime was stored after time had passed
C21_Witness ==
    /\ wrote.written
    /\ wrote.refresh_token = NoTok
    /\ wrote.expires_in = 0
    /\ wrote.at > 0
    /\ accessToken = wrote.access_token
    /\ refreshToken = CfgTok
    /\ tokenExpiresAt = wrote.at + 3540000

\* a step in which a token request or a chat-completion request of the running
\* call fails: _callOpenAI starts to throw, or a chat request is answered 401
RequestFails ==
    \/ err = "" /\ err' # ""
    \/ Count(log', "401") > Count(log, "401")

\* C22: a step in which a token refresh fails (no refresh token, request error) or
\* a chat-completion request fails leaves the access token, the refresh token and
\* the expiry exactly as they were.
C22_FailureKeepsTokenState ==
    [][ RequestFails => UNCHANGED <<accessToken, refreshToken, tokenExpiresAt>> ]_vars

\* the refresh after a 401 failed and the token of the earlier refresh is still held
C22_Witness ==
    /\ err = "OpenAI token refresh failed"
    /\ "401" \in Range(log)
    /\ wrote.written
    /\ accessToken = wrote.access_token
    /\ refreshToken # NoTok

---------------------------------------------------------------------------
(* C23: the data handed to the fast-backend fallback *)

\* the fallback was entered after data had been gathered for the message
FellBackWithData == "_fallbackToGemini" \in Range(log) /\ sections # <<>>

\* C23: whenever the powerful backend fails (empty response or exception) after
\* non-empty data was gathered for the message, the fallback is given that same
\* data, in thinkWithClaude and in _composeWithClaude alike.
C23_FallbackKeepsData == FellBackWithData => fbData = sections

\* the same, for thinkWithClaude alone
FallbackKeepsDataInThink ==
    (FellBackWithData /\ caller = "thinkWithClaude") => fbData = sections

\* the same, for _composeWithClaude when _callOpenAI returned nothing
FallbackKeepsDataOnNull ==
    (FellBackWithData /\ err = "") => fbData = sections

---------------------------------------------------------------------------
(* C24: the context fetches of compose mode *)

\* the phrases that select the email, calendar and drive fetch of part_000:308-310
CtxPhrases == << "draft a reply", "what's on my calendar", "my drive" >>

RECURSIVE Selecting(_, _)
\* the phrases of CtxPhrases whose index is in S, from the i-th on
Selecting(S, i) ==
    IF i > Len(CtxPhrases) THEN <<>>
    ELSE (IF i \in S THEN << CtxPhrases[i] >> ELSE <<>>) \o Selecting(S, i + 1)

\* a compose request for every subset of the three fetches
ComposeMessages == { << "summarize this" >> \o Selecting(S, 1) : S \in SUBSET (1..3) }

NextCompose ==
    \/ ThinkCall(ComposeMessages, { FullRegistry }, { AgentReady })
    \/ ComposeCtx
    \/ CtxResolve
    \/ CallOpenAI
    \/ GeminiResolve
    \/ Return

SpecCompose == Init /\ [][NextCompose]_vars

\* the fetches _composeWithClaude has got past
Considered == { s \in 1..Len(CtxFetches) : s < stage }

\* C24: in _composeWithClaude every fetch the message selects is attempted whatever
\* happened to the fetches before it, the sections gathered so far are kept, and
\* once the fetches are over _callOpenAI is entered.
C24_ContextFetchesIndependent ==
    (caller = "_composeWithClaude" \/ (route \in { "compose-document", "compose-draft",
                                                  "compose-summarize" } /\ pc # "idle")) =>
        /\ \A s \in Considered :
              CtxWanted(s, arg, skills) <=> CtxFetches[s] \in Range(log)
        /\ \A s \in 1..Len(CtxFetches) :
              CtxFetches[s] \in Range(sections) => s \in Considered /\ CtxWanted(s, arg, skills)
        /\ pc \notin { "composeCtx", "await_ctx", "callOpenAI" } =>
              /\ entry.entered
              /\ stage > Len(CtxFetches)
              /\ \A s \in 1..Len(CtxFetches) :
                    CtxWanted(s, arg, skills) => CtxFetches[s] \in Range(log)

\* all three fetches were selected, the calendar fetch failed, and the email and
\* drive sections were gathered before _callOpenAI was entered
C24_Witness ==
    /\ route = "compose-draft"
    /\ entry.entered
    /\ \A s \in 1..Len(CtxFetches) : CtxFetches[s] \in Range(log)
    /\ sections = << CtxFetches[1], CtxFetches[3] >>

---------------------------------------------------------------------------
(* The options of the video intent, part_000:171-184, on the characters of *)
(* the message                                                              *)

\* part_000:171, first and second test
VideoVerbs ==
    << << "g", "e", "n", "e", "r", "a", "t", "e" >>,
       << "c", "r", "e", "a", "t", "e" >>,
       << "m", "a", "k", "e" >>,
       << "p", "r", "o", "d", "u", "c", "e" >> >>
VideoWords ==
    << << "v", "i", "d", "e", "o" >>,
       << "c", "l", "i", "p" >>,
       << "a", "n", "i", "m", "a", "t", "i", "o", "n" >>,
       << "m", "o", "v", "i", "e" >>,
       << "f", "o", "o", "t", "a", "g", "e" >> >>

\* s.match(/a|b|.../) for literals
Contains(s, lits) == \E k \in 1..Len(lits), i \in 1..Len(s) : MatchAt(s, i, lits[k])

DigitChars == << "0", "1", "2", "3", "4", "5", "6", "7", "8", "9" >>

RECURSIVE DigitsEnd(_, _)
\* \d+ from i on, greedy: the first position that holds no digit
DigitsEnd(s, i) == IF i <= Len(s) /\ s[i] \in Digits THEN DigitsEnd(s, i + 1) ELSE i

\* /(\d+)\s*sec/ matches from position i
DurMatchAt(s, i) ==
    /\ s[i] \in Digits
    /\ MatchAt(s, SkipSpace(s, DigitsEnd(s, i)), << "s", "e", "c" >>)

\* lower.match(/(\d+)\s*sec/)[1], part_000:181: the digits of the leftmost match,
\* empty when there is no match
durMatch(s) ==
    IF \E i \in 1..Len(s) : DurMatchAt(s, i)
    THEN LET i == CHOOSE i \in 1..Len(s) :
                     DurMatchAt(s, i) /\ \A j \in 1..(i - 1) : ~DurMatchAt(s, j)
         IN  SubSeq(s, i, DigitsEnd(s, i) - 1)
    ELSE << >>

RECURSIVE parseInt(_)
\* parseInt of a string of decimal digits
parseInt(ds) ==
    IF ds = << >> THEN 0
    ELSE 10 * parseInt(SubSeq(ds, 1, Len(ds) - 1)) + (IndexIn(DigitChars, ds[Len(ds)]) - 1)

\* any number of seconds is passed on
DurationUnchecked(dur) == TRUE

\* [4, 6, 8].includes(dur), part_000:182
DurationAllowed(dur) == dur \in { 4, 6, 8 }

\* options.duration as generateVideo receives it: << >> when it is unset
Duration(lower) ==
    LET m == durMatch(lower)
    IN  IF m # << >> /\ DurationAllowed(parseInt(m)) THEN << parseInt(m) >> ELSE << >>

\* a number is at most this many digits
MaxDigits == 2

RECURSIVE DigitStrings(_)
DigitStrings(n) ==
    IF n = 0 THEN { << >> }
    ELSE DigitStrings(n - 1)
         \cup { Append(d, c) : d \in { e \in DigitStrings(n - 1) : Len(e) = n - 1 },
                               c \in { "0", "1", "4", "8" } }

\* requests for a clip: a number, a gap, a unit, and maybe a second length
VideoTexts ==
    { << "M", "a", "k", "e", " ", "a", " ", "c", "l", "i", "p", " " >> \o d \o g \o u \o t :
        d \in DigitStrings(MaxDigits),
        g \in { << >>, << " " >>, << "\n", " " >>, << "-" >> },
        u \in { << "s", "e", "c", "s" >>,
      << "S", "e", "c" >>,
      << "s" >>,
      << "m", "i", "n" >> },
        t \in { << >>,
      << " ", "4", "s", "e", "c" >> } }

InitVideo ==
    /\ Constructed(NoTok, NoTok, TRUE)
    /\ input \in VideoTexts /\ out = NoOut /\ seen = << >> /\ NoCalls

\* think(input, [], skills) up to generateVideo, part_000:171-184
VideoIntent ==
    /\ pc = "idle"
    /\ out.fn = "none"
    /\ LET lower == toLowerCase(input)
       IN  /\ Contains(lower, VideoVerbs) /\ Contains(lower, VideoWords)
           /\ out' = [ fn |-> "generateVideo", case |-> "", val |-> Duration(lower),
                       flag |-> Duration(lower) # << >> ]
    /\ skills' = FullRegistry
    /\ memoryContext' = ""
    /\ learnedContext' = ""
    /\ msg' = input
    /\ arg' = input
    /\ route' = "video"
    /\ pc' = "await_video"
    /\ log' = << "geminiVideo.generateVideo" >>
    /\ UNCHANGED <<agent, geminiApiKey, tok, env, tested, sections, stage, caller, fbData,
                   entry, sent, err, reply, result, input, got, seen, calls, wrote>>

NextVideo ==
    \/ VideoIntent
    \/ VideoResolve
    \/ Return

SpecVideo == InitVideo /\ [][NextVideo]_vars

---------------------------------------------------------------------------
(* C25: the duration option of the video intent *)

\* the message holds the number n, then white space or nothing, then "sec",
\* in any letter case
MentionsSeconds(s, n) ==
    \E i \in 1..Len(s) :
        /\ s[i] = DigitChars[n + 1]
        /\ \E j \in (i + 1)..(Len(s) + 1) :
              /\ \A k \in (i + 1)..(j - 1) : s[k] \in WhiteSpace
              /\ MatchAt(toLowerCase(s), j, << "s", "e", "c" >>)

\* the number of seconds the message asks for first: digits, then white space or
\* nothing, then "sec"; -1 when it asks for none
FirstSeconds(s) ==
    LET at(i) == \E j \in i..Len(s) :
                    /\ \A k \in i..j : s[k] \in Digits
                    /\ \E e \in (j + 1)..(Len(s) + 1) :
                          /\ \A k \in (j + 1)..(e - 1) : s[k] \in WhiteSpace
                          /\ MatchAt(toLowerCase(s), e, << "s", "e", "c" >>)
        run(i) == CHOOSE j \in i..Len(s) :
                    /\ \A k \in i..j : s[k] \in Digits
                    /\ j = Len(s) \/ s[j + 1] \notin Digits
    IN  IF \E i \in 1..Len(s) : at(i)
        THEN LET i == CHOOSE i \in 1..Len(s) : at(i) /\ \A h \in 1..(i - 1) : ~at(h)
             IN  parseInt(SubSeq(s, i, run(i)))
        ELSE -1

\* C25: when the video intent handles a message, options.duration is set only if
\* the message contains '<n> sec' with n one of 4, 6, 8, and then to that n; for a
\* message asking for any other number of seconds it is unset, and generateVideo
\* is called all the same, with no error reply of think's own.
C25_VideoDuration ==
    out.fn = "generateVideo" =>
        /\ "geminiVideo.generateVideo" \in Range(log) \/ pc = "idle"
        /\ out.flag =>
              /\ out.val \in { << 4 >>, << 6 >>, << 8 >> }
              /\ MentionsSeconds(input, out.val[1])
              /\ FirstSeconds(input) = out.val[1]
        /\ FirstSeconds(input) \notin { 4, 6, 8 } => ~out.flag /\ out.val = << >>

\* a request for 8 seconds was handed to generateVideo with duration 8
C25_Witness ==
    /\ out.fn = "generateVideo"
    /\ pc = "done"
    /\ result = Payload
    /\ out.flag
    /\ out.val = << 8 >>

\* a request for 10 seconds was handed to generateVideo with no duration
OtherLengthPassedOn ==
    /\ out.fn = "generateVideo"
    /\ pc = "done"
    /\ result = Payload
    /\ FirstSeconds(input) = 10
    /\ ~out.flag

---------------------------------------------------------------------------
(* Several think() calls in flight on one instance.  Each call runs to its  *)
(* next await in one step; this.skills, this._memoryContext and            *)
(* this._learnedContext are fields of the instance, part_000:117-120.      *)

\* at most this many think() calls are in flight at once
MaxThinks == 2

\* the registry the bot passes with a message of user u
SkillsOf(u) ==
    [ _userId |-> << "user", u >>, bot |-> << "bot", u >>,
      _memoryContext |-> << "memory", u >>, _learnedContext |-> << "learned", u >> ]
    @@ FullRegistry

\* messages routed to _handleReminder, thinkWithClaude, thinkWithGemini and the classifier
ThinkMessages ==
    { << "remind me to call" >>, ClaudePrefix \o << "hello" >>,
      GeminiPrefix \o << "hello" >>, << "hello" >> }

NewThink(m, u) ==
    [ pc |-> "start", msg |-> m, user |-> u, reminder |-> << >>, powerful |-> << >>,
      fast |-> << >> ]

\* the steps of a think() call touch nothing but the instance fields and the call
ThinksOnly ==
    UNCHANGED <<geminiApiKey, tok, env, input, out, seen, wrote, pc, log, result, loc, got>>

\* thinkWithGemini up to its request folds the instance's contexts into the
\* system prompt, part_000:512-514
FastPrompt(r, mem, learned) == [ r EXCEPT !.pc = "await_gemini", !.fast = << mem, learned >> ]

\* think() of call c up to its first await, part_000:117-262
ThinkEnters(c) ==
    LET r  == calls[c]
        sk == SkillsOf(r.user)
        b  == Begin(Decide(r.msg, sk, AgentReady).route, r.msg, AgentReady, geminiApiKey)
    IN  /\ r.pc = "start"
        /\ skills' = sk
        /\ agent' = AgentReady
        /\ memoryContext' = ContextOf(sk, "_memoryContext")
        /\ learnedContext' = ContextOf(sk, "_learnedContext")
        /\ calls' = [ calls EXCEPT ![c] =
              IF b.pc = "await_gemini" THEN FastPrompt(r, memoryContext', learnedContext')
              ELSE [ r EXCEPT !.pc = b.pc ] ]
        /\ ThinksOnly

\* the reminder is added for whoever this.skills belongs to by now
ReminderOfInstance == << [ userId |-> skills._userId, bot |-> skills.bot ] >>

\* the parse request of _handleReminder settles, part_000:290-298
ParseReminderAnswered(c) ==
    LET r == calls[c]
    IN  /\ r.pc = "await_parseReminder"
        /\ \/ calls' = [ calls EXCEPT ![c] =
                  [ r EXCEPT !.pc = "returned", !.reminder = ReminderOfInstance ] ]
           \/ calls' = [ calls EXCEPT ![c] = [ r EXCEPT !.pc = "returned" ] ]
        /\ UNCHANGED inst
        /\ ThinksOnly

\* classifyMessage settles, part_000:257-261
ClassifyAnswered(c) ==
    LET r == calls[c]
    IN  /\ r.pc = "await_classify"
        /\ \/ calls' = [ calls EXCEPT ![c] = [ r EXCEPT !.pc = "prefetch" ] ]
           \/ calls' = [ calls EXCEPT ![c] = FastPrompt(r, memoryContext, learnedContext) ]
        /\ UNCHANGED inst
        /\ ThinksOnly

\* prefetchData has returned: thinkWithClaude builds its prompt, part_000:390-400
PrefetchReturned(c) ==
    LET r == calls[c]
    IN  /\ r.pc = "prefetch"
        /\ calls' = [ calls EXCEPT ![c] =
              [ r EXCEPT !.pc = "await_openai",
                         !.powerful = << memoryContext, learnedContext >> ] ]
        /\ UNCHANGED inst
        /\ ThinksOnly

\* _callOpenAI settles, part_000:400-407: an answer is returned, anything else
\* goes to _fallbackToGemini and on to thinkWithGemini
OpenAIAnswered(c) ==
    LET r == calls[c]
    IN  /\ r.pc = "await_openai"
        /\ \/ calls' = [ calls EXCEPT ![c] = [ r EXCEPT !.pc = "returned" ] ]
           \/ calls' = [ calls EXCEPT ![c] = FastPrompt(r, memoryContext, learnedContext) ]
        /\ UNCHANGED inst
        /\ ThinksOnly

\* the request of thinkWithGemini settles, part_000:522-528
GeminiAnswered(c) ==
    LET r == calls[c]
    IN  /\ r.pc = "await_gemini"
        /\ calls' = [ calls EXCEPT ![c] = [ r EXCEPT !.pc = "returned" ] ]
        /\ UNCHANGED inst
        /\ ThinksOnly

\* MaxThinks messages, each of a user of its own, arrive before any is answered
InitThinks ==
    /\ Constructed(NoTok, NoTok, TRUE)
    /\ input = << >> /\ out = NoOut /\ seen = << >> /\ wrote = NotWritten
    /\ \E ms \in [ 1..MaxThinks -> ThinkMessages ] :
          calls = [ c \in 1..MaxThinks |-> NewThink(ms[c], c) ]

NextThinks ==
    \/ \E c \in DOMAIN calls : ThinkEnters(c)
    \/ \E c \in DOMAIN calls : ParseReminderAnswered(c)
    \/ \E c \in DOMAIN calls : ClassifyAnswered(c)
    \/ \E c \in DOMAIN calls : PrefetchReturned(c)
    \/ \E c \in DOMAIN calls : OpenAIAnswered(c)
    \/ \E c \in DOMAIN calls : GeminiAnswered(c)

SpecThinks == InitThinks /\ [][NextThinks]_vars

---------------------------------------------------------------------------
(* C26, C27: what a message's handling takes from the instance *)

\* C26: with think() calls in flight at once, a reminder created for a message is
\* added with the user id and the scheduler bot of the registry passed with that
\* message.
C26_ReminderOfOwnRegistry ==
    \A c \in DOMAIN calls :
        calls[c].reminder # << >> =>
            calls[c].reminder = << [ userId |-> SkillsOf(calls[c].user)._userId,
                                     bot |-> SkillsOf(calls[c].user).bot ] >>

\* the contexts supplied with the message of call c
OwnContexts(c) ==
    << SkillsOf(calls[c].user)._memoryContext, SkillsOf(calls[c].user)._learnedContext >>

\* C27: with think() calls in flight at once, the memory context and the learned
\* context folded into a message's powerful or fast prompt are those supplied with
\* that message's own think() call.
C27_ContextOfOwnCall ==
    \A c \in DOMAIN calls :
        /\ calls[c].powerful # << >> => calls[c].powerful = OwnContexts(c)
        /\ calls[c].fast # << >> => calls[c].fast = OwnContexts(c)

\* a call that reaches thinkWithGemini straight from think() folds in its own contexts
GeminiOverrideOwnContexts ==
    \A c \in DOMAIN calls :
        (StartsWith(calls[c].msg, GeminiPrefix) /\ calls[c].fast # << >>) =>
            calls[c].fast = OwnContexts(c)

---------------------------------------------------------------------------
(* C28: the work of one powerful-backend call *)

\* the positions of a call from _composeWithClaude or thinkWithClaude on, each
\* with the number of steps the call can still take from it at most
Rank ==
    CASE pc \in { "idle", "done" }                       -> 0
      [] pc \in { "await_gemini", "await_geminiData" }   -> 1
      [] pc = "await_retry"                              -> 2
      [] pc = "await_refresh401"                         -> 3
      [] pc = "await_chat"                               -> 4
      [] pc = "await_refresh"                            -> 5
      [] pc = "callOpenAI"                               -> 6
      [] pc \in { "await_ctx", "await_prefetch" }        -> 7 + 2 * (Len(PfFetches) + 1 - stage)
      [] pc \in { "composeCtx", "prefetch" }             -> 8 + 2 * (Len(PfFetches) + 1 - stage)

\* a call is being handled
Running == pc \notin { "idle", "done" }

\* the steps of the call being handled
CallStep ==
    \/ ComposeCtx \/ CtxResolve \/ Prefetch \/ PrefetchResolve
    \/ CallOpenAI \/ RefreshResolve \/ ChatResolve \/ Refresh401Resolve \/ RetryResolve
    \/ GeminiDataResolve \/ GeminiResolve

\* the requests of the call so far are within the stated numbers
BoundedRequests ==
    /\ Count(log, "openai.chat") <= 2
    /\ Len(sent) = Count(log, "openai.chat")
    /\ Count(log, "oauth.refresh") <= 2
    /\ ProactiveRefreshes <= 1
    /\ Count(log, "401") <= 1
    /\ "401" \in Range(log) => Count(After401, "oauth.refresh") <= 1
    /\ Count(log, "_fallbackToGemini") <= 1
    /\ Count(log, "thinkWithClaude") <= 1

\* C28: one _callOpenAI call sends at most two chat-completion requests and at most
\* two token-refresh requests, one proactive and one after a 401; one call of
\* thinkWithClaude enters _callOpenAI at most once and the fallback at most once;
\* every step of the handling brings it nearer to its end, and the handling is
\* never stuck while the external calls settle.
C28_BoundedWork ==
    /\ [](BoundedRequests)
    /\ [](Rank \in 0..(8 + 2 * Len(PfFetches)))
    /\ [](Running => ENABLED CallStep)
    /\ [][ pc' = "callOpenAI" => ~entry.entered ]_vars
    /\ [][ (Running /\ now' = now) => Rank' < Rank ]_vars
    /\ [][ (Running /\ ~Running') => pc' = "done" ]_vars

\* a call that refreshed twice and sent two chat requests ended in the fallback
C28_Witness ==
    /\ Count(log, "openai.chat") = 2
    /\ Count(log, "oauth.refresh") = 2
    /\ Count(log, "_fallbackToGemini") = 1
    /\ pc = "done"

---------------------------------------------------------------------------
(* C29: the configured access token of a fresh instance *)

\* _callOpenAI was entered before any refresh of this instance succeeded, with
\* an access token configured
FreshWithAccess == entry.entered /\ entry.issued = 0 /\ entry.access = CfgTok

\* C29: the expiry starts at 0, so a powerful-backend call made before any refresh
\* succeeded finds the token expired even when an access token is configured: with
\* a refresh token it sends a refresh request before any chat-completion request;
\* with none it throws 'No OpenAI refresh token configured' and sends nothing; and
\* no chat-completion request ever carries the configured access token.
C29_ConfiguredTokenNeverSent ==
    /\ FreshWithAccess =>
          /\ entry.expired
          /\ pc # "callOpenAI" =>
                IF entry.refresh
                THEN /\ "oauth.refresh" \in Range(log)
                     /\ ProactiveOver => ProactiveRefreshes = 1
                ELSE /\ err = "No OpenAI refresh token configured"
                     /\ Count(log, "oauth.refresh") = 0
                     /\ Count(log, "openai.chat") = 0
                     /\ sent = << >>
                     /\ "_fallbackToGemini" \in Range(log)
    /\ \A i \in 1..Len(sent) : sent[i].token # CfgTok

\* an instance with an access token and no refresh token: its call threw the
\* missing-refresh-token error and went to the fallback
C29_Witness ==
    /\ FreshWithAccess
    /\ ~entry.refresh
    /\ accessToken = CfgTok
    /\ err = "No OpenAI refresh token configured"
    /\ pc = "done"

---------------------------------------------------------------------------
(* C30: what prefetchData returns when a fetch fails *)

\* the phrases that select the email, calendar, drive and web-search fetch of
\* part_000:368-380
PfPhrases == << "send an email to bob", "what's on my calendar", "open the folder",
                "latest news" >>

RECURSIVE Asking(_, _)
\* the phrases of PfPhrases whose index is in S, from the i-th on
Asking(S, i) ==
    IF i > Len(PfPhrases) THEN <<>>
    ELSE (IF i \in S THEN << PfPhrases[i] >> ELSE <<>>) \o Asking(S, i + 1)

\* a /claude request for every subset of the four fetches
PrefetchMessages == { ClaudePrefix \o Asking(S, 1) : S \in SUBSET (1..4) }

NextPrefetch ==
    \/ ThinkCall(PrefetchMessages, { FullRegistry }, { AgentReady })
    \/ Prefetch
    \/ PrefetchResolve
    \/ CallOpenAI
    \/ GeminiDataResolve
    \/ GeminiResolve
    \/ Return

SpecPrefetch == Init /\ [][NextPrefetch]_vars

\* the fetches prefetchData has attempted, in the order of their requests
Attempted == SelectSeq(log, LAMBDA e : e \in Range(PfFetches))

\* prefetchData has returned
PrefetchOver == caller = "thinkWithClaude" /\ pc \notin { "prefetch", "await_prefetch" }

\* the fetch whose request is in flight
InFlight == IF pc = "await_prefetch" THEN << PfFetches[stage] >> ELSE << >>

\* the position of a fetch in the order email, calendar, drive, web search
PfIndex(f) == CHOOSE s \in 1..Len(PfFetches) : PfFetches[s] = f

\* C30: prefetchData never raises; its fetches are attempted in the order email,
\* calendar, drive, web search; when a fetch throws, the sections gathered before
\* are returned and no later fetch is attempted; the web-search fetch is attempted
\* only when no workspace section has been gathered.
C30_PrefetchFailureSemantics ==
    route = "/claude" =>
        /\ \A i, j \in 1..Len(Attempted) :
              i < j => PfIndex(Attempted[i]) < PfIndex(Attempted[j])
        /\ \/ sections \o InFlight = Attempted
           \/ /\ PrefetchOver
              /\ Attempted # << >>
              /\ sections = SubSeq(Attempted, 1, Len(Attempted) - 1)
        /\ "braveSearch.search" \in Range(log) =>
              \A i \in 1..Len(sections) : sections[i] = "braveSearch.search"
        /\ (PrefetchOver /\ sections = Attempted) =>
              \A s \in 1..Len(PfFetches) :
                  PfFetches[s] \in Range(log) <=>
                      /\ Hits({ PfPhrases[s] }, arg)
                      /\ IF s = 4 THEN skills.braveSearch ELSE WorkspaceReady(skills)
                      /\ s = 4 => \A w \in 1..3 :
                                     ~(Hits({ PfPhrases[w] }, arg) /\ WorkspaceReady(skills))
        /\ PrefetchOver =>
              /\ pc = "callOpenAI" \/ entry.entered
              /\ result.kind # "raised"
              /\ pc = "callOpenAI" => err = ""

\* the email section was gathered, the calendar fetch threw, the drive fetch the
\* message asks for was not attempted, and thinkWithClaude went on to _callOpenAI
C30_Witness ==
    /\ route = "/claude"
    /\ Hits({ "open the folder" }, arg)
    /\ sections = << "googleWorkspace.getRecentEmails" >>
    /\ Attempted = << "googleWorkspace.getRecentEmails", "googleWorkspace.getTodayEvents" >>
    /\ entry.entered

=============================================================================
